---- MODULE Spec2Model ----
(***************************************************************************)
(* A model of cachex: the value-cache and reference-cache decorators, the  *)
(* stored-value envelope and the storage backends.                         *)
(*                                                                         *)
(* Strings that the code inspects character by character (storage keys,    *)
(* key prefixes, parameter names) are sequences of one-character strings.  *)
(* Time is a discrete clock `now`; every datetime.now() of an operation    *)
(* reads it.                                                               *)
(***************************************************************************)
EXTENDS Integers, Sequences, FiniteSets, TLC

VARIABLES
    now,        \* the wall clock read by datetime.now(UTC)
    kind,       \* SpecStorage: the storage class under test, "memory" or "file"
    _mem,       \* MemoryStorage._mem: key -> envelope
    dir_exists, \* FileStorage: whether self.path exists as a directory
    files,      \* FileStorage: file name -> file content, for the files in self.path
    lastSet,    \* history: key -> the arguments of the latest set not followed by a delete
    deleted,    \* history: the keys whose latest set or delete was a delete
    res,        \* history: the latest storage operation and its outcome
    backend,    \* SpecPrefix: the shared backend under test, "redis" or "mongo"
    redis,      \* the Redis server's keyspace: key -> value and expiry
    mongo,      \* the Mongo collection: document key -> document
    th,         \* per thread: where it is in the wrappers, and their local variables
    heap,       \* the objects created so far, by identity: object id -> content
    wfunc,      \* per cache_reference-wrapped callable: the function it wraps
    wlock,      \* per cache_reference-wrapped callable: the holder of its lock, or 0
    _ref_storage, \* ref.py _ref_storage: cache key -> object
    invs,       \* history: the invocations of wrapped functions (callable, key, object)
    rets,       \* history: what calls of wrapped callables returned
    ever,       \* history: every (key, object) ever stored in _ref_storage
    started,    \* history: the number of calls started
    stores,     \* the storage objects made by storage factories: object id -> its content
    conf,       \* the arguments the cache_value decorators were constructed with
    dec,        \* per cache_value decorator: _storage, and the holders of its two locks
    vinvs,      \* history: the invocations of the decorated user functions
    log,        \* history: the finished calls of decorated functions
    setseq,     \* history: the number of storage.set calls made by the wrappers
    overlapped, \* history: some call started while another was in progress
    expiredSeen, \* history: some wrapper's storage.get found an expired entry
    kcall,      \* SpecKey: a function and two calls of it
    kres,       \* SpecKey: what make_value_key gave for the two calls, once computed
    fw,         \* SpecFileWrite: per writer, where it is in FileStorage._write
    fr,         \* SpecFileRace: per reader, where it is in FileStorage.get
    mconf,      \* MongoStorage: _max_failures, _base_backoff, _max_backoff
    _has_collection, \* MongoStorage._has_collection
    _collection, \* MongoStorage._collection
    _lock,      \* MongoStorage._lock: the thread holding it, or 0
    mth,        \* per thread calling a MongoStorage method: where it is
    ncreated,   \* history: the number of create_indexes calls that succeeded
    hobj,       \* SpecCycle: the objects in memory and the one being hashed
    hruns,      \* SpecCycle: the digests computed for it, per session
    decs,       \* SpecDecorate: the decorations applied so far
    decorator,  \* SpecNested: per decorated function, the decorator it was given
    frames,     \* SpecNested: per thread, the calls it is inside, innermost last
    lock,       \* the lock made by wraps() / __call__ per decorated function: holder or 0
    ref_lock,   \* ref.py _lock, the mutex of the registry: the thread holding it, or 0
    registry,   \* what is cached per key (_ref_storage, or the cache_value storage)
    bodies,     \* history: the invocations of user functions and how each ended
    nlog        \* history: the outermost calls that have completed

storageVars == <<kind, _mem, dir_exists, files, lastSet, deleted>>
prefixVars == <<backend, redis, mongo>>
refVars == <<th, heap, wfunc, wlock, _ref_storage, invs, rets, ever, started, stores>>
valueVars == <<conf, dec, vinvs, log, setseq, overlapped, expiredSeen>>
keyVars == <<kcall, kres>>
writeVars == <<fw>>
raceVars == <<fr>>
lazyVars == <<mconf, _has_collection, _collection, _lock, mth, ncreated>>
hashVars == <<hobj, hruns>>
decoVars == <<decs>>
nestVars == <<decorator, frames, lock, ref_lock, registry, bodies, nlog>>
laterVars == <<raceVars, lazyVars, hashVars, decoVars, nestVars>>
nonStorageVars == <<prefixVars, refVars, valueVars, keyVars, writeVars, laterVars>>
nonPrefixVars == <<storageVars, refVars, valueVars, keyVars, writeVars, laterVars>>
nonRefVars == <<res, storageVars, prefixVars, valueVars, keyVars, writeVars, laterVars>>
nonValueVars == <<res, storageVars, prefixVars, keyVars, writeVars, laterVars>>

vars == <<now, res, storageVars, prefixVars, refVars, valueVars, keyVars, writeVars, laterVars>>

\* An optional value is a sequence: None is the empty one, Some(x) holds x.
None == <<>>
Some(x) == <<x>>
Absent == None

(***************************************************************************)
(* Bounds of the model.                                                    *)
(***************************************************************************)
MaxTime == 2

Values == {"v1", "v2"}

\* expires_in arguments: unset, an invalid zero, and a positive duration
ExpiresIn == {None, Some(0), Some(1)}
\* the lifetimes given to a storage set directly: also a negative one
SetExpiresIn == ExpiresIn \cup {Some(-1)}

(***************************************************************************)
(* Characters and strings.                                                 *)
(***************************************************************************)
Digits == <<"0", "1", "2", "3", "4", "5", "6", "7", "8", "9">>

\* str(n) for n >= 0: the decimal digits of n
RECURSIVE str(_)
str(n) == IF n < 10 THEN <<Digits[n + 1]>> ELSE str(n \div 10) \o <<Digits[(n % 10) + 1]>>

\* ord(c) for the characters of the model
ord(c) ==
    CASE c = "-" -> 45
      [] c = ":" -> 58
      [] c = "_" -> 95
      [] c = "*" -> 42
      [] c = "4" -> 52
      [] c = "5" -> 53
      [] c = "a" -> 97
      [] c = "b" -> 98
      [] c = "k" -> 107
      [] c = "sup4" -> 8308

\* c.isalnum(): letters, decimal digits and digit-like characters such as
\* SUPERSCRIPT FOUR
isalnum(c) == c \in {"4", "5", "a", "b", "k", "sup4"}

\* unicodedata.normalize("NFKD", c) of one character: SUPERSCRIPT FOUR (here
\* "sup4") has the compatibility decomposition "4"; ASCII is unchanged
NFKD_char(c) == IF c = "sup4" THEN <<"4">> ELSE <<c>>

RECURSIVE normalize_NFKD(_)
normalize_NFKD(name) ==
    IF name = <<>> THEN <<>> ELSE NFKD_char(Head(name)) \o normalize_NFKD(Tail(name))

RECURSIVE JoinSafe(_)
JoinSafe(name) ==
    IF name = <<>> THEN <<>>
    ELSE (IF isalnum(Head(name)) THEN <<Head(name)>> ELSE str(ord(Head(name))))
         \o JoinSafe(Tail(name))

\* a file name that keeps the key as it is: no two keys share one
_safe_file_name_identity(name) == name

\* file.py _safe_file_name
_safe_file_name(name) == JoinSafe(normalize_NFKD(name))

(***************************************************************************)
(* The stored-value envelope (storage/base.py StoredObject).               *)
(***************************************************************************)
\* an envelope constructor that rejects only negative lifetimes
StoredObject_new_accepting_zero(data, expires_in, t) ==
    IF expires_in # None /\ expires_in[1] < 0
    THEN None
    ELSE Some([expires_at |-> IF expires_in # None THEN Some(t + expires_in[1]) ELSE None,
               data |-> data])

\* Some(envelope), or None when it raises ValueError (expires_in zero or negative)
StoredObject_new(data, expires_in, t) ==
    IF expires_in # None /\ expires_in[1] <= 0
    THEN None
    ELSE Some([expires_at |-> IF expires_in # None THEN Some(t + expires_in[1]) ELSE None,
               data |-> data])

\* an envelope that outlives its expiry instant by treating the boundary as live
expired_after_boundary(sv, t) == sv.expires_at # None /\ t > sv.expires_at[1]

\* StoredObject.expired
expired(sv, t) == sv.expires_at # None /\ t >= sv.expires_at[1]

\* pickle.dumps / pickle.loads of an envelope: the file holds its pickle
pickle_dumps(sv) == [pickle |-> sv, truncated |-> FALSE]
pickle_loads(bytes) == bytes.pickle

\* the leading part of some bytes, and what pickle.loads raises for bytes
truncated_bytes(bytes) == [bytes EXCEPT !.truncated = TRUE]
pickle_loads_error(bytes) == IF bytes.truncated THEN "UnpicklingError" ELSE ""

(***************************************************************************)
(* The state of the parts a specification does not exercise.               *)
(***************************************************************************)
PrefixIdle == backend = "none" /\ redis = <<>> /\ mongo = <<>>

RefIdle ==
    /\ th = <<>>
    /\ heap = <<>>
    /\ wfunc = <<>>
    /\ wlock = <<>>
    /\ _ref_storage = <<>>
    /\ invs = {}
    /\ rets = {}
    /\ ever = {}
    /\ started = 0
    /\ stores = <<>>

ValueIdle ==
    /\ conf = <<>>
    /\ dec = <<>>
    /\ vinvs = {}
    /\ log = {}
    /\ setseq = 0
    /\ overlapped = FALSE
    /\ expiredSeen = FALSE

KeyIdle == kcall = <<>> /\ kres = <<>>

WriteIdle == fw = <<>>

RaceIdle == fr = <<>>

LazyIdle ==
    /\ mconf = <<>>
    /\ _has_collection = FALSE
    /\ _collection = None
    /\ _lock = 0
    /\ mth = <<>>
    /\ ncreated = 0

HashIdle == hobj = <<>> /\ hruns = <<>>

DecoIdle == decs = <<>>

NestIdle ==
    /\ decorator = <<>>
    /\ frames = <<>>
    /\ lock = <<>>
    /\ ref_lock = 0
    /\ registry = <<>>
    /\ bodies = <<>>
    /\ nlog = <<>>

LaterIdle == RaceIdle /\ LazyIdle /\ HashIdle /\ DecoIdle /\ NestIdle

(***************************************************************************)
(* Storage keys of the model: "45" and "-" are distinct keys, as are "4"   *)
(* and SUPERSCRIPT FOUR.                                                   *)
(***************************************************************************)
Keys == {<<"4", "5">>, <<"-">>, <<"k">>}

FileNames == {_safe_file_name(k) : k \in Keys}

NoEntries == [k \in Keys |-> Absent]

NoOp == [op |-> "init", key |-> <<>>, out |-> None, raised |-> "", at |-> 0, before |-> NoEntries]

\* a fresh MemoryStorage and a fresh FileStorage whose directory does not exist yet
StorageFresh ==
    /\ _mem = [k \in Keys |-> Absent]
    /\ dir_exists = FALSE
    /\ files = [f \in FileNames |-> Absent]
    /\ lastSet = [k \in Keys |-> None]
    /\ deleted = {}

StorageInit ==
    /\ now = 0
    /\ res = NoOp
    /\ kind \in {"memory", "file"}
    /\ StorageFresh
    /\ KeyIdle
    /\ WriteIdle
    /\ LaterIdle
    /\ PrefixIdle
    /\ RefIdle
    /\ ValueIdle

Tick ==
    /\ now < MaxTime
    /\ now' = now + 1
    /\ res' = [NoOp EXCEPT !.op = "tick"]
    /\ UNCHANGED storageVars
    /\ UNCHANGED nonStorageVars

(***************************************************************************)
(* MemoryStorage (storage/memory.py).  Every method runs under self._lock, *)
(* so each is one atomic step.                                             *)
(***************************************************************************)
\* a mapping with one key (re)bound; Lookup of a key never bound is Absent
Put(mem, key, x) == [k \in DOMAIN mem \cup {key} |-> IF k = key THEN x ELSE mem[k]]
Lookup(mem, key) == IF key \in DOMAIN mem THEN mem[key] ELSE Absent

\* a set that keeps the entry already stored under the key
Memory_set_keep_first(mem, key, value, expires_in, t) ==
    LET sv == StoredObject_new(value, expires_in, t) IN
    IF sv = None THEN [raised |-> "ValueError", mem |-> mem]
    ELSE [raised |-> "", mem |-> IF Lookup(mem, key) = Absent THEN Put(mem, key, sv) ELSE mem]

\* MemoryStorage.set on the mapping mem at time t: the exception raised, if
\* any, and the mapping afterwards
Memory_set(mem, key, value, expires_in, t) ==
    LET sv == StoredObject_new(value, expires_in, t) IN
    IF sv = None THEN [raised |-> "ValueError", mem |-> mem]
    ELSE [raised |-> "", mem |-> Put(mem, key, sv)]

\* MemoryStorage.get on the mapping mem at time t: the bytes returned (or
\* None) and the mapping afterwards
Memory_get(mem, key, t) ==
    LET stored_value == Lookup(mem, key) IN
    IF stored_value = Absent THEN [out |-> None, mem |-> mem]
    ELSE IF expired(stored_value[1], t) THEN [out |-> None, mem |-> Put(mem, key, Absent)]
    ELSE [out |-> Some(stored_value[1].data), mem |-> mem]

Outcome(op, k, out, raised, before) ==
    [op |-> op, key |-> k, out |-> out, raised |-> raised, at |-> now, before |-> before]

SetRecord(v, t) == [data |-> v, created |-> now, expires_in |-> t]

MemoryStorage_set(k, v, t) ==
    LET s == Memory_set(_mem, k, v, t, now) IN
    /\ kind = "memory"
    /\ _mem' = s.mem
    /\ res' = Outcome("set", k, None, s.raised, NoEntries)
    /\ IF s.raised # ""
       THEN UNCHANGED <<lastSet, deleted>>
       ELSE /\ lastSet' = [lastSet EXCEPT ![k] = Some(SetRecord(v, t))]
            /\ deleted' = deleted \ {k}
    /\ UNCHANGED <<now, kind, dir_exists, files>>
    /\ UNCHANGED nonStorageVars

MemoryStorage_get(k) ==
    LET g == Memory_get(_mem, k, now) IN
    /\ kind = "memory"
    /\ _mem' = g.mem
    /\ res' = Outcome("get", k, g.out, "", NoEntries)
    /\ UNCHANGED <<now, kind, dir_exists, files, lastSet, deleted>>
    /\ UNCHANGED nonStorageVars

MemoryStorage_delete(k) ==
    /\ kind = "memory"
    /\ _mem' = [_mem EXCEPT ![k] = Absent]
    /\ lastSet' = [lastSet EXCEPT ![k] = None]
    /\ deleted' = deleted \cup {k}
    /\ res' = Outcome("delete", k, None, "", _mem)
    /\ UNCHANGED <<now, kind, dir_exists, files>>
    /\ UNCHANGED nonStorageVars

MemoryStorage_delete_all ==
    /\ kind = "memory"
    /\ _mem' = [k \in Keys |-> Absent]
    /\ lastSet' = [k \in Keys |-> None]
    /\ res' = Outcome("delete_all", <<>>, None, "", NoEntries)
    /\ UNCHANGED <<now, kind, dir_exists, files, deleted>>
    /\ UNCHANGED nonStorageVars

(***************************************************************************)
(* FileStorage (storage/file.py), one caller at a time.  oserr says        *)
(* whether the operating system fails the temp-file write or the rename.   *)
(***************************************************************************)
_path_from_key(key) == _safe_file_name(key)

\* _FileCommon._load_from_path: the envelope, or Absent for a missing file;
\* only FileNotFoundError is caught, so what pickle.loads raises is raised
_load_from_path(path) ==
    IF ~dir_exists \/ files[path] = Absent THEN [raised |-> "", out |-> Absent]
    ELSE IF pickle_loads_error(files[path][1]) # ""
    THEN [raised |-> pickle_loads_error(files[path][1]), out |-> Absent]
    ELSE [raised |-> "", out |-> Some(pickle_loads(files[path][1]))]

\* what is stored under a key, as a reader of the directory sees it
FileEntries == [k \in Keys |-> _load_from_path(_path_from_key(k)).out]

\* _FileCommon._write: temp file, write, os.replace; an OSError is swallowed
\* and the temp file is unlinked
_write(target_file, stored_value, oserr) ==
    IF oserr THEN files ELSE [files EXCEPT ![target_file] = Some(pickle_dumps(stored_value))]

FileStorage_set(k, v, t, oserr) ==
    LET path == _path_from_key(k)
        stored_value == StoredObject_new(v, t, now) IN
    /\ kind = "file"
    /\ dir_exists' = TRUE
    /\ IF stored_value = None
       THEN /\ res' = Outcome("set", k, None, "ValueError", NoEntries)
            /\ UNCHANGED <<files, lastSet, deleted>>
       ELSE /\ files' = _write(path, stored_value[1], oserr)
            /\ lastSet' = [lastSet EXCEPT ![k] = Some(SetRecord(v, t))]
            /\ deleted' = deleted \ {k}
            /\ res' = Outcome("set", k, None, "", NoEntries)
    /\ UNCHANGED <<now, kind, _mem>>
    /\ UNCHANGED nonStorageVars

FileStorage_get(k) ==
    LET path == _path_from_key(k)
        loaded == _load_from_path(path)
        stored_value == loaded.out IN
    /\ kind = "file"
    /\ IF loaded.raised # ""
       THEN /\ res' = Outcome("get", k, None, loaded.raised, lastSet)
            /\ UNCHANGED files
       ELSE IF stored_value = Absent
       THEN /\ res' = Outcome("get", k, None, "", lastSet)
            /\ UNCHANGED files
       ELSE IF expired(stored_value[1], now)
       THEN /\ files' = [files EXCEPT ![path] = Absent]
            /\ res' = Outcome("get", k, None, "", lastSet)
       ELSE /\ res' = Outcome("get", k, Some(stored_value[1].data), "", lastSet)
            /\ UNCHANGED files
    /\ UNCHANGED <<now, kind, _mem, dir_exists, lastSet, deleted>>
    /\ UNCHANGED nonStorageVars

FileStorage_delete(k) ==
    LET path == _path_from_key(k) IN
    /\ kind = "file"
    /\ files' = [files EXCEPT ![path] = Absent]
    /\ lastSet' = [lastSet EXCEPT ![k] = None]
    /\ deleted' = deleted \cup {k}
    /\ res' = Outcome("delete", k, None, "", FileEntries)
    /\ UNCHANGED <<now, kind, _mem, dir_exists>>
    /\ UNCHANGED nonStorageVars

\* shutil.rmtree(self.path) raises when the directory does not exist
FileStorage_delete_all ==
    /\ kind = "file"
    /\ IF ~dir_exists
       THEN /\ res' = Outcome("delete_all", <<>>, None, "FileNotFoundError", NoEntries)
            /\ UNCHANGED <<files, lastSet>>
       ELSE /\ files' = [f \in FileNames |-> Absent]
            /\ lastSet' = [k \in Keys |-> None]
            /\ res' = Outcome("delete_all", <<>>, None, "", NoEntries)
    /\ UNCHANGED <<now, kind, _mem, dir_exists, deleted>>
    /\ UNCHANGED nonStorageVars

StorageNext ==
    \/ Tick
    \/ \E k \in Keys, v \in Values, t \in SetExpiresIn : MemoryStorage_set(k, v, t)
    \/ \E k \in Keys : MemoryStorage_get(k)
    \/ \E k \in Keys : MemoryStorage_delete(k)
    \/ MemoryStorage_delete_all
    \/ \E k \in Keys, v \in Values, t \in SetExpiresIn : FileStorage_set(k, v, t, FALSE)
    \/ \E k \in Keys : FileStorage_get(k)
    \/ \E k \in Keys : FileStorage_delete(k)
    \/ FileStorage_delete_all

SpecStorage == StorageInit /\ [][StorageNext]_vars

\* what the storage under test holds for each key
Entries == IF kind = "memory" THEN _mem ELSE FileEntries

(***************************************************************************)
(* C8: after set(K, v, t), with no delete, delete_all or set of K since, a *)
(* get(K) returns v when t is unset or the time of the get is strictly     *)
(* before creation time + t, and null at every time at or after it.        *)
(***************************************************************************)
RoundTripExpected(k, t) ==
    LET s == lastSet[k][1] IN
    IF s.expires_in = None \/ t < s.created + s.expires_in[1] THEN Some(s.data) ELSE None

C8_RoundTrip ==
    (res.op = "get" /\ lastSet[res.key] # None)
        => (res.raised = "" /\ res.out = RoundTripExpected(res.key, res.at))

\* the same for MemoryStorage alone
C8_RoundTripMemory == (kind = "memory") => C8_RoundTrip

(***************************************************************************)
(* C9: delete(K) succeeds whether or not K is present (so also twice in a  *)
(* row), leaves no entry for K, so that a get(K) after it with no set of K *)
(* in between returns null, and leaves the entries under every other key   *)
(* as they were.                                                           *)
(***************************************************************************)
C9_DeleteIdempotent ==
    /\ res.op = "delete" =>
          /\ res.raised = ""
          /\ Entries[res.key] = Absent
          /\ \A k2 \in Keys \ {res.key} : Entries[k2] = res.before[k2]
    /\ (res.op = "get" /\ res.key \in deleted) => res.out = None

C9_DeleteIdempotentMemory == (kind = "memory") => C9_DeleteIdempotent

(***************************************************************************)
(* Redis and Mongo storages that share one backend (storage/redis.py,      *)
(* storage/mongo.py).  Each instance has a key prefix; the backend is one  *)
(* keyspace / one collection.  The Mongo collection is taken as already    *)
(* created and the server as reachable.                                    *)
(***************************************************************************)
Prefixes == {<<"a">>, <<"a", "b">>, <<"a", "_", "b">>}

CacheKeys == {<<"k">>}

\* expires_in arguments of the shared-backend storages
PrefixExpiresIn == {None, Some(1)}

\* Datetime for a stored value which does not expire (the year 2999, on the
\* clock of the model)
DNE == 2999

\* _RedisCommon._make_key
Redis_make_key(key_prefix, key) == key_prefix \o <<":">> \o key

\* the pattern handed to SCAN ... MATCH by _delete_all
Redis_delete_all_pattern(key_prefix) == key_prefix \o <<"*", ":", "*">>

\* a pattern that ends the prefix at the separator: prefix ":" "*"
Redis_delete_all_pattern_exact(key_prefix) == key_prefix \o <<":", "*">>

\* the server's glob match of SCAN ... MATCH: "*" is any run of characters,
\* "?" any one character, anything else itself
RECURSIVE GlobMatch(_, _)
GlobMatch(pattern, string) ==
    IF pattern = <<>> THEN string = <<>>
    ELSE IF Head(pattern) = "*"
    THEN GlobMatch(Tail(pattern), string)
         \/ (string # <<>> /\ GlobMatch(pattern, Tail(string)))
    ELSE /\ string # <<>>
         /\ (Head(pattern) = "?" \/ Head(pattern) = Head(string))
         /\ GlobMatch(Tail(pattern), Tail(string))

\* _MongoCommon._make_key
Mongo_make_key(key_prefix, key) == key_prefix \o <<"_">> \o key

\* the $regex of _delete_all, without its leading "^"
Mongo_delete_all_regex(key_prefix) == key_prefix \o <<"_">>

\* the server's match of "^" followed by the given characters: the key
\* starts with them, "." standing for any one character
RECURSIVE RegexStartsWith(_, _)
RegexStartsWith(regex, string) ==
    IF regex = <<>> THEN TRUE
    ELSE /\ string # <<>>
         /\ (Head(regex) = "." \/ Head(regex) = Head(string))
         /\ RegexStartsWith(Tail(regex), Tail(string))

\* _MongoCommon._get_expires_at
_get_expires_at(expires_in, t) == IF expires_in = None THEN DNE ELSE t + expires_in[1]

RedisKeys == {Redis_make_key(p, k) : p \in Prefixes, k \in CacheKeys}
MongoKeys == {Mongo_make_key(p, k) : p \in Prefixes, k \in CacheKeys}

POutcome(op, p, k, out, raised, before) ==
    [op |-> op, prefix |-> p, key |-> k, out |-> out, raised |-> raised, at |-> now,
     before |-> before]

PrefixInit ==
    /\ now = 0
    /\ backend \in {"redis", "mongo"}
    /\ redis = [rk \in RedisKeys |-> Absent]
    /\ mongo = [mk \in MongoKeys |-> Absent]
    /\ res = POutcome("init", <<>>, <<>>, None, "", <<>>)
    /\ kind = "none"
    /\ StorageFresh
    /\ KeyIdle
    /\ WriteIdle
    /\ LaterIdle
    /\ RefIdle
    /\ ValueIdle

PrefixTick ==
    /\ now < MaxTime
    /\ now' = now + 1
    /\ res' = POutcome("tick", <<>>, <<>>, None, "", <<>>)
    /\ UNCHANGED <<prefixVars, nonPrefixVars>>

\* RedisStorage.set: SET key value EX expires_in
RedisStorage_set(p, k, v, t) ==
    LET key == Redis_make_key(p, k) IN
    /\ backend = "redis"
    /\ redis' = [redis EXCEPT ![key] =
                    Some([value |-> v,
                          ex |-> IF t = None THEN None ELSE Some(now + t[1])])]
    /\ res' = POutcome("set", p, k, None, "", <<>>)
    /\ UNCHANGED <<now, backend, mongo, nonPrefixVars>>

\* what GET answers: the server no longer has a key whose time to live is over
RedisLive(entry) == entry # Absent /\ (entry[1].ex = None \/ now < entry[1].ex[1])

RedisStorage_get(p, k) ==
    LET key == Redis_make_key(p, k) IN
    /\ backend = "redis"
    /\ res' = POutcome("get", p, k,
                       IF RedisLive(redis[key]) THEN Some(redis[key][1].value) ELSE None,
                       "", <<>>)
    /\ UNCHANGED <<now, prefixVars, nonPrefixVars>>

RedisStorage_delete(p, k) ==
    LET key == Redis_make_key(p, k) IN
    /\ backend = "redis"
    /\ redis' = [redis EXCEPT ![key] = Absent]
    /\ res' = POutcome("delete", p, k, None, "", <<>>)
    /\ UNCHANGED <<now, backend, mongo, nonPrefixVars>>

\* the script of _delete_all: UNLINK every key that SCAN ... MATCH returns
RedisStorage_delete_all(p) ==
    LET pattern == Redis_delete_all_pattern(p) IN
    /\ backend = "redis"
    /\ redis' = [rk \in RedisKeys |-> IF GlobMatch(pattern, rk) THEN Absent ELSE redis[rk]]
    /\ res' = POutcome("delete_all", p, <<>>, None, "", redis)
    /\ UNCHANGED <<now, backend, mongo, nonPrefixVars>>

\* _MongoCommon._set on the collection at time t, key being the document
\* key: update_one({"key": key}, {"$set": {"value": ...}, "$setOnInsert":
\* {"key": key, "expiresAt": ...}}, upsert=True).  The exception raised, if
\* any, and the collection afterwards.
Mongo_set(collection, key, value, expires_in, t) ==
    LET stored_value == StoredObject_new(value, expires_in, t)
        expires_at == _get_expires_at(expires_in, t)
        document == Lookup(collection, key) IN
    IF stored_value = None THEN [raised |-> "ValueError", collection |-> collection]
    ELSE [raised |-> "",
          collection |-> Put(collection, key,
              IF document = Absent
              THEN Some([value |-> pickle_dumps(stored_value[1]), expiresAt |-> expires_at])
              ELSE Some([document[1] EXCEPT !.value = pickle_dumps(stored_value[1])]))]

\* MongoStorage.get on the collection at time t: find_one, then the envelope
\* decides; the collection is left as it is
Mongo_get(collection, key, t) ==
    LET data == Lookup(collection, key) IN
    IF data = Absent THEN None
    ELSE IF expired(pickle_loads(data[1].value), t) THEN None
    ELSE Some(pickle_loads(data[1].value).data)

\* the documents the server's TTL monitor may delete at time t: the index
\* on expiresAt has expireAfterSeconds=0
TTLExpired(collection, t) ==
    {key \in DOMAIN collection :
        collection[key] # Absent /\ collection[key][1].expiresAt <= t}

MongoStorage_set(p, k, v, t) ==
    LET s == Mongo_set(mongo, Mongo_make_key(p, k), v, t, now) IN
    /\ backend = "mongo"
    /\ mongo' = s.collection
    /\ res' = POutcome("set", p, k, None, s.raised, <<>>)
    /\ UNCHANGED <<now, backend, redis, nonPrefixVars>>

MongoStorage_get(p, k) ==
    /\ backend = "mongo"
    /\ res' = POutcome("get", p, k, Mongo_get(mongo, Mongo_make_key(p, k), now), "", <<>>)
    /\ UNCHANGED <<now, prefixVars, nonPrefixVars>>

MongoStorage_delete(p, k) ==
    LET key == Mongo_make_key(p, k) IN
    /\ backend = "mongo"
    /\ mongo' = [mongo EXCEPT ![key] = Absent]
    /\ res' = POutcome("delete", p, k, None, "", <<>>)
    /\ UNCHANGED <<now, backend, redis, nonPrefixVars>>

\* delete_many({"key": {"$regex": "^{key_prefix}_"}})
MongoStorage_delete_all(p) ==
    LET regex == Mongo_delete_all_regex(p) IN
    /\ backend = "mongo"
    /\ mongo' = [mk \in MongoKeys |-> IF RegexStartsWith(regex, mk) THEN Absent ELSE mongo[mk]]
    /\ res' = POutcome("delete_all", p, <<>>, None, "", mongo)
    /\ UNCHANGED <<now, backend, redis, nonPrefixVars>>

PrefixNext ==
    \/ PrefixTick
    \/ \E p \in Prefixes, k \in CacheKeys, v \in Values, t \in PrefixExpiresIn :
          RedisStorage_set(p, k, v, t)
    \/ \E p \in Prefixes, k \in CacheKeys : RedisStorage_get(p, k)
    \/ \E p \in Prefixes, k \in CacheKeys : RedisStorage_delete(p, k)
    \/ \E p \in Prefixes : RedisStorage_delete_all(p)
    \/ \E p \in Prefixes, k \in CacheKeys, v \in Values, t \in PrefixExpiresIn :
          MongoStorage_set(p, k, v, t)
    \/ \E p \in Prefixes, k \in CacheKeys : MongoStorage_get(p, k)
    \/ \E p \in Prefixes, k \in CacheKeys : MongoStorage_delete(p, k)
    \/ \E p \in Prefixes : MongoStorage_delete_all(p)

SpecPrefix == PrefixInit /\ [][PrefixNext]_vars

(***************************************************************************)
(* C10: delete_all on an instance with key prefix P removes only entries   *)
(* written through P: for every other prefix Q, also one that P is a       *)
(* leading substring of, every entry written through Q is in the backend   *)
(* after the delete_all as it was before, and so is still returned by get. *)
(***************************************************************************)
BackendNow == IF backend = "redis" THEN redis ELSE mongo

Backend_make_key(p, k) ==
    IF backend = "redis" THEN Redis_make_key(p, k) ELSE Mongo_make_key(p, k)

C10_DeleteAllOwnPrefixOnly ==
    res.op = "delete_all" =>
        \A q \in Prefixes \ {res.prefix}, k \in CacheKeys :
            BackendNow[Backend_make_key(q, k)] = res.before[Backend_make_key(q, k)]

\* delete_all does remove the instance's own entries
C10_DeleteAllRemovesOwn ==
    res.op = "delete_all" =>
        \A k \in CacheKeys : BackendNow[Backend_make_key(res.prefix, k)] = Absent

(***************************************************************************)
(* Cache keys (_core.py).  A digest is modelled by what was fed to the     *)
(* hasher, so that two keys are equal exactly when the hashed inputs are.  *)
(***************************************************************************)
\* _core.py make_function_key: the digest of (module, qualname) and the source
make_function_key(func) == <<func.module, func.qualname, func.source>>

\* _core.py get_positional_arg_name: the name, or None
get_positional_arg_name(func, arg_index) ==
    IF arg_index < 1 \/ arg_index > Len(func.params) THEN None
    ELSE IF func.params[arg_index].positional THEN func.params[arg_index].name
    ELSE None

\* no name counts as beginning with an underscore
startswith_underscore_never(arg_name) == FALSE

\* arg_name is not None and arg_name.startswith("_")
startswith_underscore(arg_name) == arg_name # None /\ Head(arg_name) = "_"

(***************************************************************************)
(* Hashing (_hashing.py).  A Python value is a record of its type's name   *)
(* and its content; the bytes of a value are modelled by the type name and *)
(* what the rule of the type feeds to the digest.                          *)
(***************************************************************************)
PyNone == [type |-> "NoneType", val |-> <<>>]
PyStr(s) == [type |-> "str", val |-> s]
PyInt(s) == [type |-> "int", val |-> s]

\* an object of a user class: no built-in rule applies to it, and hashing
\* its reduce form fails (it names a function, whose __reduce__ raises)
Conn(s) == [type |-> "Conn", val |-> s]

\* the type encoders a decorator may be given: none, one for the type of the
\* argument, one for the type that raises, one for another type only
NoEncoders == <<>>
ConnEncoder == <<[type |-> "Conn", encoder |-> "address"]>>
BrokenEncoder == <<[type |-> "Conn", encoder |-> "broken"]>>
OtherEncoder == <<[type |-> "Socket", encoder |-> "address"]>>

\* calling an encoder: "address" returns a string made of the object's
\* content, "broken" raises
encoder_raises(encoder, obj) == encoder = "broken"
encoder_call(encoder, obj) == PyStr(obj.val)

Hashed(b) == [raised |-> "", b |-> b]
Unhashable == [raised |-> "UnhashableTypeError", b |-> <<>>]

\* _hashing.py _to_bytes, last branch: obj.__reduce__() and the hash of its items
reduce_to_bytes(obj) == Unhashable

\* _hashing.py CacheFuncHasher.to_bytes / _to_bytes
RECURSIVE to_bytes(_, _)
to_bytes(obj, type_encoders) ==
    IF obj.type \in {"str", "int"} THEN Hashed(<<obj.type, <<obj.val>>>>)
    ELSE IF obj.type = "NoneType" THEN Hashed(<<obj.type, <<<<"0">>>>>>)
    ELSE IF type_encoders # <<>> THEN
        LET matching == SelectSeq(type_encoders, LAMBDA e : e.type = obj.type)
            parts == [i \in 1..Len(matching) |->
                         IF encoder_raises(matching[i].encoder, obj) THEN Unhashable
                         ELSE to_bytes(encoder_call(matching[i].encoder, obj), type_encoders)]
        IN  IF \E i \in 1..Len(parts) : parts[i].raised # "" THEN Unhashable
            ELSE Hashed(<<obj.type, [i \in 1..Len(parts) |-> parts[i].b]>>)
    ELSE reduce_to_bytes(obj)

\* _hashing.py update_hash of the tuple (arg_name, arg_value)
pair_to_bytes(pair, type_encoders) ==
    LET name == to_bytes(IF pair[1] = None THEN PyNone ELSE PyStr(pair[1]), type_encoders)
        value == to_bytes(pair[2], type_encoders)
    IN  IF value.raised # "" THEN Unhashable
        ELSE Hashed(<<"tuple", <<name.b, value.b>>>>)

\* a digest that forgets the order of the updates
hexdigest_any_order(updates) ==
    [b \in {updates[i] : i \in 1..Len(updates)} |->
        Cardinality({i \in 1..Len(updates) : updates[i] = b})]

\* args_hasher.hexdigest(): the digest of the concatenated updates.  The
\* digest is taken to be injective, and is modelled by the sequence of the
\* updates, which are of one length
hexdigest(updates) == updates

\* a key that leaves the arguments out
make_value_key_ignoring_args(function_key, func, type_encoders, args, kwargs) ==
    [raised |-> "", arg_name |-> None, key |-> <<function_key, <<>>>>]

\* _core.py make_value_key: args are the positional values, kwargs the
\* (name, value) pairs in the order the caller wrote them.  The result is the
\* key, or the UnhashableParamError raised for the first argument that cannot
\* be hashed.
make_value_key(function_key, func, type_encoders, args, kwargs) ==
    LET arg_pairs == [i \in 1..Len(args) |-> <<get_positional_arg_name(func, i), args[i]>>]
                     \o kwargs
        bound == IF func.is_method /\ arg_pairs # <<>> THEN Tail(arg_pairs) ELSE arg_pairs
        hashed == SelectSeq(bound, LAMBDA pair : ~startswith_underscore(pair[1]))
        parts == [i \in 1..Len(hashed) |-> pair_to_bytes(hashed[i], type_encoders)]
        bad == {i \in 1..Len(hashed) : parts[i].raised # ""}
        first == CHOOSE i \in bad : \A j \in bad : i <= j
    IN  IF bad # {}
        THEN [raised |-> "UnhashableParamError", arg_name |-> hashed[first][1],
              key |-> <<function_key, <<>>>>]
        ELSE [raised |-> "", arg_name |-> None,
              key |-> <<function_key, hexdigest([i \in 1..Len(hashed) |-> parts[i].b])>>]

(***************************************************************************)
(* cache_reference (ref.py).  Threads call wrapped callables; each wrapped *)
(* callable has the lock made by wraps(), and all share _ref_storage,      *)
(* which is read and written under the global _lock (one step each).       *)
(***************************************************************************)
NThreads == 2
NWrapped == 2
MaxCalls == 3

Threads == 1..NThreads
Wrapped == 1..NWrapped

Param(name) == [name |-> name, positional |-> TRUE]

\* two user functions, each creating a new connection object per invocation
CallFunc ==
    [module |-> "app", qualname |-> "call", source |-> "def call(host): ...",
     params |-> <<Param(<<"h", "o", "s", "t">>)>>, is_method |-> FALSE, makes |-> "conn"]

OpenFunc ==
    [module |-> "app", qualname |-> "open_conn", source |-> "def open_conn(host): ...",
     params |-> <<Param(<<"h", "o", "s", "t">>)>>, is_method |-> FALSE, makes |-> "conn"]

\* the argument values of the calls
RefArgs == {PyStr(<<"a">>), PyStr(<<"b">>)}

\* what a storage factory returns: a new storage of the factory's class
NewStorage(storage_factory) == [class |-> storage_factory, content |-> <<>>]

IdleThread ==
    [vpc |-> "idle", rpc |-> "idle", d |-> 0, args |-> <<>>, storage |-> 0, value |-> 0,
     w |-> 0, rargs |-> <<>>, ref |-> 0, n |-> 0, live |-> FALSE, at |-> 0]

RefInit ==
    /\ now = 0
    /\ th = [t \in Threads |-> IdleThread]
    /\ heap = <<>>
    /\ wfunc \in [Wrapped -> {CallFunc, OpenFunc}]
    /\ wlock = [w \in Wrapped |-> 0]
    /\ _ref_storage = <<>>
    /\ invs = {}
    /\ rets = {}
    /\ ever = {}
    /\ started = 0
    /\ stores = <<>>
    /\ res = NoOp
    /\ kind = "none"
    /\ StorageFresh
    /\ KeyIdle
    /\ WriteIdle
    /\ LaterIdle
    /\ PrefixIdle
    /\ ValueIdle

\* the key of the call a thread is making through a wrapped callable
RefKey(t) ==
    make_value_key(make_function_key(wfunc[th[t].w]), wfunc[th[t].w], NoEncoders,
                   th[t].rargs, <<>>).key

\* threads have no identity of their own: a new call is made by the first
\* thread that is not inside a call
FirstIdle(t) ==
    /\ th[t].rpc = "idle" /\ th[t].vpc = "idle"
    /\ \A t2 \in Threads : t2 < t => (th[t2].rpc # "idle" \/ th[t2].vpc # "idle")

\* a thread calls the wrapped callable w with one positional argument
RefCall(t, w, a) ==
    /\ FirstIdle(t)
    /\ started < MaxCalls
    /\ started' = started + 1
    /\ th' = [th EXCEPT ![t].rpc = "acquire", ![t].w = w, ![t].rargs = <<a>>, ![t].ref = 0]
    /\ UNCHANGED <<now, heap, wfunc, wlock, _ref_storage, invs, rets, ever, stores, nonRefVars>>

\* a lock that anyone may take at any time
LockFree_always(w) == TRUE

\* the wrapper's lock is free
LockFree(w) == wlock[w] = 0

\* with lock:
RefAcquire(t) ==
    /\ th[t].rpc = "acquire"
    /\ LockFree(th[t].w)
    /\ wlock' = [wlock EXCEPT ![th[t].w] = t]
    /\ th' = [th EXCEPT ![t].rpc = "lookup"]
    /\ UNCHANGED <<now, heap, wfunc, _ref_storage, invs, rets, ever, started, stores, nonRefVars>>

\* with _lock: ref = _ref_storage[key]; a hit returns ref and leaves the lock
RefLookup(t) ==
    LET key == RefKey(t) IN
    /\ th[t].rpc = "lookup"
    /\ IF key \in DOMAIN _ref_storage
       THEN /\ th' = [th EXCEPT ![t].rpc = "ret", ![t].ref = _ref_storage[key]]
            /\ wlock' = [wlock EXCEPT ![th[t].w] = 0]
       ELSE /\ th' = [th EXCEPT ![t].rpc = "invoke"]
            /\ UNCHANGED wlock
    /\ UNCHANGED <<now, heap, wfunc, _ref_storage, invs, rets, ever, started, stores, nonRefVars>>

\* ref = func(*args, **kwargs): the function returns a new object
RefInvoke(t) ==
    LET obj == Len(heap) + 1 IN
    /\ th[t].rpc = "invoke"
    /\ heap' = Append(heap, [tag |-> wfunc[th[t].w].makes, val |-> 0])
    /\ stores' = IF wfunc[th[t].w].makes = "storage"
                 THEN Put(stores, obj, NewStorage(conf.storage_factory))
                 ELSE stores
    /\ invs' = invs \cup {[w |-> th[t].w, key |-> RefKey(t), obj |-> obj]}
    /\ th' = [th EXCEPT ![t].rpc = "store", ![t].ref = obj]
    /\ UNCHANGED <<now, wfunc, wlock, _ref_storage, rets, ever, started, nonRefVars>>

\* with _lock: _ref_storage[key] = ref; then return ref, leaving the lock
RefStore(t) ==
    LET key == RefKey(t) IN
    /\ th[t].rpc = "store"
    /\ _ref_storage' = [k \in DOMAIN _ref_storage \cup {key} |->
                           IF k = key THEN th[t].ref ELSE _ref_storage[k]]
    /\ ever' = ever \cup {<<key, th[t].ref>>}
    /\ wlock' = [wlock EXCEPT ![th[t].w] = 0]
    /\ th' = [th EXCEPT ![t].rpc = "ret"]
    /\ UNCHANGED <<now, heap, wfunc, invs, rets, started, stores, nonRefVars>>

\* the caller receives the object
RefReturn(t) ==
    /\ th[t].rpc = "ret" /\ th[t].vpc = "idle"
    /\ rets' = rets \cup {[w |-> th[t].w, key |-> RefKey(t), obj |-> th[t].ref]}
    /\ th' = [th EXCEPT ![t].rpc = "idle"]
    /\ UNCHANGED <<now, heap, wfunc, wlock, _ref_storage, invs, ever, started, stores, nonRefVars>>

RefNext ==
    \/ \E t \in Threads, w \in Wrapped, a \in RefArgs : RefCall(t, w, a)
    \/ \E t \in Threads : RefAcquire(t)
    \/ \E t \in Threads : RefLookup(t)
    \/ \E t \in Threads : RefInvoke(t)
    \/ \E t \in Threads : RefStore(t)
    \/ \E t \in Threads : RefReturn(t)

SpecRef == RefInit /\ [][RefNext]_vars

(***************************************************************************)
(* C5: for one function decorated with cache_reference (no other wrapped   *)
(* callable sharing its cache keys), in every interleaving the body is     *)
(* invoked at most once per cache key, every call with that key returns    *)
(* the identical object, and calls with different keys return different    *)
(* objects.                                                                *)
(***************************************************************************)
SharesKeys(w) == \E w2 \in Wrapped \ {w} : make_function_key(wfunc[w2]) = make_function_key(wfunc[w])

C5_OneObjectPerKey ==
    \A w \in Wrapped :
        ~SharesKeys(w) =>
            /\ \A i1 \in invs, i2 \in invs :
                  (i1.w = w /\ i2.w = w /\ i1.key = i2.key) => i1 = i2
            /\ \A r1 \in rets, r2 \in rets :
                  (r1.w = w /\ r2.w = w) => ((r1.key = r2.key) <=> (r1.obj = r2.obj))

\* two threads have called one wrapped function with the same argument, one
\* more call used another argument, and all three have returned
C5_Witness ==
    \E w \in Wrapped :
        /\ ~SharesKeys(w)
        /\ started = 3
        /\ \A t \in Threads : th[t].rpc = "idle"
        /\ Cardinality({r \in rets : r.w = w}) = 2
        /\ Cardinality({i \in invs : i.w = w}) = 2

(***************************************************************************)
(* C6: at most one object is ever associated with a cache key in the       *)
(* registry, also when distinct wrapped callables have coinciding keys:    *)
(* once a key is registered its object is never replaced, and the wrapped  *)
(* function is not invoked a second time for that key.                     *)
(***************************************************************************)
C6_OneObjectPerKeyGlobally ==
    /\ \A e1 \in ever, e2 \in ever : e1[1] = e2[1] => e1[2] = e2[2]
    /\ \A i1 \in invs, i2 \in invs : i1.key = i2.key => i1 = i2

(***************************************************************************)
(* cache_value (value.py).  Each decorator instance decorates one user     *)
(* function.  Its storage comes from self._factory, the storage factory    *)
(* wrapped by _wrap_factory and cache_reference, so resolving the storage  *)
(* is a nested call through the cache_reference wrapper above.  A user     *)
(* function returns a new object on every invocation, whose content is the *)
(* number of invocations so far (a process-local counter).                 *)
(***************************************************************************)
NDecorators == 2

Decorators == 1..NDecorators

FuncNames == <<"get_user", "get_orders", "get_items", "get_totals">>

\* the user function under decorator d
UserFunc(d) ==
    [module |-> "app", qualname |-> FuncNames[d], source |-> "def f(n): ...",
     params |-> <<Param(<<"n">>)>>, is_method |-> FALSE, makes |-> "value"]

\* _wrap_factory's wrapper(factory_key): the same function for every decorator
WrapperFunc ==
    [module |-> "cachex.value", qualname |-> "_wrap_factory.<locals>.wrapper",
     source |-> "def wrapper(factory_key): ...",
     params |-> <<Param(<<"f", "a", "c", "t", "o", "r", "y", "_", "k", "e", "y">>)>>,
     is_method |-> FALSE, makes |-> "storage"]

\* the arguments of the calls of decorated functions
ValueArgs == {PyInt(<<"1">>)}

\* the factory_key arguments of the decorators
FactoryKeys == {None, Some("s1")}

\* the value passed for factory_key: None or a string
FactoryKeyArg(factory_key) == IF factory_key = None THEN PyNone ELSE PyStr(factory_key)

\* _MongoCommon.__init__: the default key_prefix
DefaultPrefix == <<"c", "a", "c", "h", "e", "x">>

\* the classes of what a user function returns, and what pickle.dumps raises
\* for an object of the class: nothing for an int, TypeError for a generator,
\* PicklingError for a lambda, AttributeError for an object of a class defined
\* inside a function
ResultClasses == {"int", "generator", "function", "LocalClass"}

pickle_dumps_error(class) ==
    IF class = "generator" THEN "TypeError"
    ELSE IF class = "function" THEN "PicklingError"
    ELSE IF class = "LocalClass" THEN "AttributeError"
    ELSE ""

\* the exceptions a storage backend may raise from get or set ("" for none)
NoFaults == {""}
BackendFaults == {"", "ImproperlyConfiguredException", "ConnectionError"}

\* the state after the decorators were constructed and applied, their
\* configuration being one of confs
ValueInitFrom(confs) ==
    /\ now = 0
    /\ th = [t \in Threads |-> IdleThread]
    /\ heap = <<>>
    /\ wfunc = [d \in Decorators |-> WrapperFunc]
    /\ wlock = [d \in Decorators |-> 0]
    /\ _ref_storage = <<>>
    /\ invs = {}
    /\ rets = {}
    /\ ever = {}
    /\ started = 0
    /\ stores = <<>>
    /\ conf \in confs
    /\ dec = [d \in Decorators |-> [_storage |-> 0, _storage_lock |-> 0, lock |-> 0]]
    /\ vinvs = {}
    /\ log = {}
    /\ setseq = 0
    /\ overlapped = FALSE
    /\ expiredSeen = FALSE
    /\ res = NoOp
    /\ kind = "none"
    /\ StorageFresh
    /\ KeyIdle
    /\ WriteIdle
    /\ LaterIdle
    /\ PrefixIdle

\* decorators that are given no type encoders, decorate functions returning
\* picklable values, and use a backend that does not fail
ValueInitWith(storage_factory, serialize, expires_in, factory_key) ==
    ValueInitFrom([storage_factory : {storage_factory}, serialize : serialize,
                   expires_in : expires_in, factory_key : factory_key,
                   type_encoders : {NoEncoders}, returns : {"int"}, faults : {NoFaults}])

\* make_value_key(function_key, func, self._type_encoders, *args, **kwargs)
\* of the call a thread is making
ValueKeyResult(t) ==
    make_value_key(make_function_key(UserFunc(th[t].d)), UserFunc(th[t].d),
                   conf.type_encoders, th[t].args, <<>>)

\* the cache key of the call a thread is making
ValueKey(t) == ValueKeyResult(t).key

\* storage.get(key) at time t: what it returns and the storage afterwards
Storage_get(store, key, t) ==
    IF store.class = "memory"
    THEN LET g == Memory_get(store.content, key, t) IN
         [out |-> g.out, store |-> [store EXCEPT !.content = g.mem]]
    ELSE [out |-> Mongo_get(store.content, Mongo_make_key(DefaultPrefix, key), t),
          store |-> store]

\* storage.set(key, value, expires_in) at time t: the exception raised, if
\* any, and the storage afterwards
Storage_set(store, key, value, expires_in, t) ==
    IF store.class = "memory"
    THEN LET m == Memory_set(store.content, key, value, expires_in, t) IN
         [raised |-> m.raised, store |-> [store EXCEPT !.content = m.mem]]
    ELSE LET m == Mongo_set(store.content, Mongo_make_key(DefaultPrefix, key), value,
                            expires_in, t) IN
         [raised |-> m.raised, store |-> [store EXCEPT !.content = m.collection]]

\* the envelope a storage holds for a key, if any
StoredEnvelope(store, key) ==
    IF store.class = "memory" THEN Lookup(store.content, key)
    ELSE LET document == Lookup(store.content, Mongo_make_key(DefaultPrefix, key)) IN
         IF document = Absent THEN Absent ELSE Some(pickle_loads(document[1].value))

\* the storage holds an entry for the key whose expiry, if it has one, is
\* still ahead of time t
LiveEntry(store, key, t) ==
    LET e == StoredEnvelope(store, key) IN
    e # Absent /\ (e[1].expires_at = None \/ t < e[1].expires_at[1])

\* a thread calls the function under decorator d with one positional argument
ValueCall(t, d, a) ==
    /\ FirstIdle(t)
    /\ started < MaxCalls
    /\ started' = started + 1
    /\ overlapped' = (overlapped \/ \E t2 \in Threads \ {t} : th[t2].vpc # "idle")
    /\ th' = [th EXCEPT ![t] = [IdleThread EXCEPT !.vpc = "resolve", !.d = d,
                                                  !.args = <<a>>, !.n = started + 1]]
    /\ UNCHANGED <<now, heap, wfunc, wlock, _ref_storage, invs, rets, ever, stores>>
    /\ UNCHANGED <<conf, dec, vinvs, log, setseq, expiredSeen, nonValueVars>>

\* if self._storage is not None: storage = self._storage
ValueResolve(t) ==
    LET d == th[t].d IN
    /\ th[t].vpc = "resolve"
    /\ th' = IF dec[d]._storage # 0
             THEN [th EXCEPT ![t].vpc = "lock", ![t].storage = dec[d]._storage]
             ELSE [th EXCEPT ![t].vpc = "storage_lock"]
    /\ UNCHANGED <<now, heap, wfunc, wlock, _ref_storage, invs, rets, ever, started, stores>>
    /\ UNCHANGED <<valueVars, nonValueVars>>

\* with self._storage_lock: the second check of self._storage; when it is
\* still None the thread calls self._factory(self._factory_key), holding the lock
ValueStorageLock(t) ==
    LET d == th[t].d IN
    /\ th[t].vpc = "storage_lock"
    /\ dec[d]._storage_lock = 0
    /\ IF dec[d]._storage # 0
       THEN /\ th' = [th EXCEPT ![t].vpc = "lock", ![t].storage = dec[d]._storage]
            /\ UNCHANGED dec
       ELSE /\ th' = [th EXCEPT ![t].vpc = "factory", ![t].rpc = "acquire", ![t].w = d,
                                ![t].rargs = <<FactoryKeyArg(conf.factory_key[d])>>, ![t].ref = 0]
            /\ dec' = [dec EXCEPT ![d]._storage_lock = t]
    /\ UNCHANGED <<now, heap, wfunc, wlock, _ref_storage, invs, rets, ever, started, stores>>
    /\ UNCHANGED <<conf, vinvs, log, setseq, overlapped, expiredSeen, nonValueVars>>

\* storage = self._factory(...) has returned: self._storage = storage, and
\* the thread leaves self._storage_lock
ValueBind(t) ==
    LET d == th[t].d IN
    /\ th[t].vpc = "factory" /\ th[t].rpc = "ret"
    /\ dec' = [dec EXCEPT ![d]._storage = th[t].ref, ![d]._storage_lock = 0]
    /\ th' = [th EXCEPT ![t].vpc = "lock", ![t].rpc = "idle", ![t].storage = th[t].ref]
    /\ UNCHANGED <<now, heap, wfunc, wlock, _ref_storage, invs, rets, ever, started, stores>>
    /\ UNCHANGED <<conf, vinvs, log, setseq, overlapped, expiredSeen, nonValueVars>>

\* a lock that never makes anyone wait
SerialLockFree_always(d) == TRUE

\* lock is a threading.Lock under allow_concurrent=False and a _NullLock
\* otherwise: whether a thread may enter "with lock" now
SerialLockFree(d) == ~conf.serialize \/ dec[d].lock = 0

\* with lock:
ValueLock(t) ==
    LET d == th[t].d IN
    /\ th[t].vpc = "lock"
    /\ SerialLockFree(d)
    /\ dec' = IF conf.serialize THEN [dec EXCEPT ![d].lock = t] ELSE dec
    /\ th' = [th EXCEPT ![t].vpc = "get"]
    /\ UNCHANGED <<now, heap, wfunc, wlock, _ref_storage, invs, rets, ever, started, stores>>
    /\ UNCHANGED <<conf, vinvs, log, setseq, overlapped, expiredSeen, nonValueVars>>

\* pickle.loads returning an object that already exists with that content
Unpickled_same_object(data, h) ==
    LET olds == {o \in 1..Len(h) : h[o].tag = "value" /\ h[o].val = pickle_loads(data)} IN
    IF olds = {}
    THEN [obj |-> Len(h) + 1, heap |-> Append(h, [tag |-> "value", val |-> pickle_loads(data), class |-> "int"])]
    ELSE [obj |-> CHOOSE o \in olds : TRUE, heap |-> h]

\* pickle.loads(data): a new object with the pickled content
Unpickled(data, h) ==
    [obj |-> Len(h) + 1, heap |-> Append(h, [tag |-> "value", val |-> pickle_loads(data), class |-> "int"])]

\* the record of a call that has finished
Finished(t, obj, val, invoked, raised, seq) ==
    [n |-> th[t].n, d |-> th[t].d, key |-> ValueKey(t), obj |-> obj, val |-> val,
     invoked |-> invoked, live |-> th[t].live, at |-> th[t].at, raised |-> raised,
     seq |-> seq, setat |-> IF invoked THEN now ELSE 0, args |-> th[t].args,
     fault |-> "", op |-> ""]

\* leaving "with lock" without releasing it
Released_never(d) == dec

\* leaving "with lock"
Released(d) == [dec EXCEPT ![d].lock = 0]

\* the exception that leaves the wrapper when storage.get raises fault
get_raises(fault) ==
    IF fault = "ImproperlyConfiguredException" THEN fault ELSE "CacheError"

\* key = make_value_key(...); data = storage.get(key); on a hit: return
\* pickle.loads(data).  fault is the exception storage.get raises, if any.
ValueGet(t, fault) ==
    LET d == th[t].d
        sid == th[t].storage
        k == ValueKeyResult(t)
        key == k.key
        g == Storage_get(stores[sid], key, now)
        live == LiveEntry(stores[sid], key, now)
        u == Unpickled(g.out[1], heap)
        me == [th EXCEPT ![t].live = live, ![t].at = now] IN
    /\ th[t].vpc = "get"
    /\ IF k.raised # ""
       THEN /\ log' = log \cup {Finished(t, 0, 0, FALSE, k.raised, 0)}
            /\ dec' = Released(d)
            /\ th' = [th EXCEPT ![t] = IdleThread]
            /\ UNCHANGED <<heap, stores, expiredSeen>>
       ELSE IF fault # ""
       THEN /\ log' = log \cup {[Finished(t, 0, 0, FALSE, get_raises(fault), 0)
                                   EXCEPT !.fault = fault, !.op = "get"]}
            /\ dec' = Released(d)
            /\ th' = [th EXCEPT ![t] = IdleThread]
            /\ UNCHANGED <<heap, stores, expiredSeen>>
       ELSE /\ stores' = [stores EXCEPT ![sid] = g.store]
            /\ expiredSeen' =
                  (expiredSeen \/ (StoredEnvelope(stores[sid], key) # Absent /\ ~live))
            /\ IF g.out # None
               THEN /\ heap' = u.heap
                    /\ log' = log \cup {[Finished(t, u.obj, heap'[u.obj].val, FALSE, "", 0)
                                           EXCEPT !.live = live, !.at = now]}
                    /\ dec' = Released(d)
                    /\ th' = [th EXCEPT ![t] = IdleThread]
               ELSE /\ th' = [me EXCEPT ![t].vpc = "miss"]
                    /\ UNCHANGED <<heap, log, dec>>
    /\ UNCHANGED <<now, wfunc, wlock, _ref_storage, invs, rets, ever, started>>
    /\ UNCHANGED <<conf, vinvs, setseq, overlapped, nonValueVars>>

\* value = func(*args, **kwargs)
ValueInvoke(t) ==
    LET obj == Len(heap) + 1
        val == Cardinality(vinvs) + 1 IN
    /\ th[t].vpc = "miss"
    /\ heap' = Append(heap, [tag |-> "value", val |-> val, class |-> conf.returns])
    /\ vinvs' = vinvs \cup {[n |-> th[t].n, d |-> th[t].d, key |-> ValueKey(t),
                             obj |-> obj, val |-> val]}
    /\ th' = [th EXCEPT ![t].vpc = "set", ![t].value = obj]
    /\ UNCHANGED <<now, wfunc, wlock, _ref_storage, invs, rets, ever, started, stores>>
    /\ UNCHANGED <<conf, dec, log, setseq, overlapped, expiredSeen, nonValueVars>>

\* the exception that leaves the wrapper when pickle.dumps raises error
dumps_raises(error) ==
    IF error \in {"TypeError", "PicklingError"} THEN "UnserializableReturnValueError"
    ELSE error

\* data = pickle.dumps(value); storage.set(key, data, expires_in=...);
\* return value.  An exception of set leaves as CacheError.  fault is the
\* exception the backend raises from set, if any.
ValueSet(t, fault) ==
    LET d == th[t].d
        sid == th[t].storage
        obj == th[t].value
        error == pickle_dumps_error(heap[obj].class)
        data == pickle_dumps(heap[obj].val)
        m == Storage_set(stores[sid], ValueKey(t), data, conf.expires_in, now) IN
    /\ th[t].vpc = "set"
    /\ setseq' = setseq + 1
    /\ IF error # ""
       THEN /\ log' = log \cup {Finished(t, 0, 0, TRUE, dumps_raises(error), 0)}
            /\ UNCHANGED stores
       ELSE IF fault # ""
       THEN /\ log' = log \cup {[Finished(t, 0, 0, TRUE, "CacheError", 0)
                                   EXCEPT !.fault = fault, !.op = "set"]}
            /\ UNCHANGED stores
       ELSE /\ stores' = [stores EXCEPT ![sid] = m.store]
            /\ log' = log \cup {IF m.raised = ""
                                THEN Finished(t, obj, heap[obj].val, TRUE, "", setseq')
                                ELSE Finished(t, 0, 0, TRUE, "CacheError", 0)}
    /\ dec' = Released(d)
    /\ th' = [th EXCEPT ![t] = IdleThread]
    /\ UNCHANGED <<now, heap, wfunc, wlock, _ref_storage, invs, rets, ever, started>>
    /\ UNCHANGED <<conf, vinvs, overlapped, expiredSeen, nonValueVars>>

\* a caller mutates an object that a call returned to it: the content
\* becomes 0, which is no function result
Mutate(o) ==
    /\ \E r \in log : r.obj = o
    /\ heap[o].val # 0
    /\ heap' = [heap EXCEPT ![o].val = 0]
    /\ UNCHANGED <<now, th, wfunc, wlock, _ref_storage, invs, rets, ever, started, stores>>
    /\ UNCHANGED <<valueVars, nonValueVars>>

ValueTick ==
    /\ now < MaxTime
    /\ now' = now + 1
    /\ UNCHANGED <<refVars, valueVars, nonValueVars>>

\* the Mongo server's TTL monitor deletes a document whose expiresAt has passed
MongoTTL(sid, key) ==
    /\ sid \in DOMAIN stores
    /\ stores[sid].class = "mongo"
    /\ key \in TTLExpired(stores[sid].content, now)
    /\ stores' = [stores EXCEPT ![sid].content = Put(@, key, Absent)]
    /\ UNCHANGED <<now, th, heap, wfunc, wlock, _ref_storage, invs, rets, ever, started>>
    /\ UNCHANGED <<valueVars, nonValueVars>>

\* the steps of a thread that is inside a call
ValueStep(t) ==
    \/ ValueResolve(t)
    \/ ValueStorageLock(t)
    \/ RefAcquire(t)
    \/ RefLookup(t)
    \/ RefInvoke(t)
    \/ RefStore(t)
    \/ ValueBind(t)
    \/ ValueLock(t)
    \/ \E fault \in conf.faults : ValueGet(t, fault)
    \/ ValueInvoke(t)
    \/ \E fault \in conf.faults : ValueSet(t, fault)

ValueNext ==
    \/ \E t \in Threads, d \in Decorators, a \in ValueArgs : ValueCall(t, d, a)
    \/ \E t \in Threads : ValueStep(t)
    \/ ValueTick

\* cache_value decorators over the default storage factory,
\* memory_storage_factory(), all with the default factory_key
SpecValue ==
    /\ ValueInitWith("memory", BOOLEAN, ExpiresIn, {[d \in Decorators |-> None]})
    /\ [][ValueNext]_vars

CopyNext ==
    \/ \E t \in Threads, d \in Decorators, a \in ValueArgs : ValueCall(t, d, a)
    \/ \E t \in Threads : ValueStep(t)
    \/ \E o \in 1..Len(heap) : Mutate(o)

\* callers that mutate what they were returned
SpecCopy ==
    /\ ValueInitWith("memory", {FALSE}, {None}, {[d \in Decorators |-> None]})
    /\ [][CopyNext]_vars

CallNext ==
    \/ \E t \in Threads, d \in Decorators, a \in ValueArgs : ValueCall(t, d, a)
    \/ \E t \in Threads : ValueStep(t)

\* decorators with allow_concurrent=True (the default) and no expiry; a
\* thread that can take its next step is scheduled eventually
SpecConcurrent ==
    /\ ValueInitWith("memory", {FALSE}, {None}, {[d \in Decorators |-> None]})
    /\ [][CallNext]_vars
    /\ \A t \in Threads : WF_vars(ValueStep(t))

\* decorators built from one storage factory, with any factory_key arguments
SpecFactory ==
    /\ ValueInitWith("memory", {FALSE}, {None}, [Decorators -> FactoryKeys])
    /\ [][CallNext]_vars

ValueMongoNext ==
    \/ \E t \in Threads, d \in Decorators, a \in ValueArgs : ValueCall(t, d, a)
    \/ \E t \in Threads : ValueStep(t)
    \/ ValueTick
    \/ \E sid \in DOMAIN stores : \E key \in DOMAIN stores[sid].content : MongoTTL(sid, key)

\* cache_value decorators over a mongo_storage_factory with an expiry
SpecValueMongo ==
    /\ ValueInitWith("mongo", {FALSE}, {Some(1)}, {[d \in Decorators |-> None]})
    /\ [][ValueMongoNext]_vars
(***************************************************************************)
(* C1: in a run of non-overlapping calls of decorated functions, the user  *)
(* function is invoked for a call if and only if the storage holds no      *)
(* unexpired entry for the call's cache key; a call that follows a         *)
(* successful populate of its key before expires_in has elapsed returns an *)
(* equal value without invoking the function, and a call made once         *)
(* expires_in has elapsed invokes the function again.                      *)
(***************************************************************************)
\* the call populated the cache: the function was invoked and set succeeded
Populated(p) == p.invoked /\ p.raised = ""

\* p is the latest populate of r's key before the call r
LatestPopulate(p, r) ==
    /\ Populated(p) /\ p.n < r.n /\ p.d = r.d /\ p.key = r.key
    /\ ~\E q \in log : Populated(q) /\ q.d = r.d /\ q.key = r.key /\ p.n < q.n /\ q.n < r.n

\* r looked the key up before the entry that p wrote was due to expire
BeforeExpiry(p, r) == conf.expires_in = None \/ r.at < p.setat + conf.expires_in[1]

C1_InvokedIffNoLiveEntry ==
    ~overlapped =>
        /\ \A r \in log : r.invoked <=> ~r.live
        /\ \A p \in log, r \in log :
              LatestPopulate(p, r) =>
                  IF BeforeExpiry(p, r)
                  THEN ~r.invoked /\ r.raised = "" /\ r.val = p.val
                  ELSE r.invoked

\* over the in-memory storage
C1_InvokedIffNoLiveEntryMemory == (conf.storage_factory = "memory") => C1_InvokedIffNoLiveEntry

(***************************************************************************)
(* C2: with allow_concurrent=False, while no entry has expired and set     *)
(* succeeds, in every interleaving of calls with identical arguments the   *)
(* user function is invoked exactly once per key: the calls go through the *)
(* locked section one at a time, the first populates the cache and every   *)
(* other call returns the value of that one invocation from a hit.         *)
(***************************************************************************)
InLockedSection(t) == th[t].vpc \in {"get", "miss", "set"}

C2_SingleFlight ==
    (conf.serialize /\ ~expiredSeen /\ conf.expires_in # Some(0)) =>
        /\ \A i1 \in vinvs, i2 \in vinvs : (i1.d = i2.d /\ i1.key = i2.key) => i1 = i2
        /\ \A r \in log :
              \E i \in vinvs : /\ i.d = r.d /\ i.key = r.key /\ i.val = r.val
                               /\ r.invoked <=> (i.n = r.n)
        /\ \A t1 \in Threads, t2 \in Threads :
              (t1 # t2 /\ th[t1].d = th[t2].d) => ~(InLockedSection(t1) /\ InLockedSection(t2))

\* one call has invoked the function and is about to store the value while
\* another call of the same function with the same arguments waits for the lock
C2_Witness ==
    /\ conf.serialize /\ ~expiredSeen /\ conf.expires_in # Some(0)
    /\ \E t1 \in Threads, t2 \in Threads :
          /\ t1 # t2 /\ th[t1].d = th[t2].d /\ th[t1].args = th[t2].args
          /\ th[t1].vpc = "set" /\ th[t2].vpc = "lock"

(***************************************************************************)
(* C3: with allow_concurrent=True two concurrent calls with identical      *)
(* arguments can both miss and both invoke the user function (the          *)
(* witness); every call that has started completes; and the entry in       *)
(* storage for a key is the one written by the set that executed last.     *)
(***************************************************************************)
\* the latest successful set of a key among the finished calls
LastSet(r) ==
    /\ Populated(r)
    /\ ~\E q \in log : Populated(q) /\ q.d = r.d /\ q.key = r.key /\ q.seq > r.seq

LastSetWins ==
    \A r \in log :
        LastSet(r) =>
            StoredEnvelope(stores[dec[r.d]._storage], r.key) =
                StoredObject_new(pickle_dumps(r.val), conf.expires_in, r.setat)

C3_CompleteAndLastSetWins ==
    /\ [](~conf.serialize => LastSetWins)
    /\ \A t \in Threads : (~conf.serialize /\ th[t].vpc # "idle") ~> (th[t].vpc = "idle")

\* two calls of one function with the same arguments have both missed and
\* both invoked the user function
C3_Witness ==
    /\ ~conf.serialize
    /\ \E t1 \in Threads, t2 \in Threads :
          /\ t1 # t2 /\ th[t1].d = th[t2].d /\ th[t1].args = th[t2].args
          /\ th[t1].vpc = "set" /\ th[t2].vpc = "set"

(***************************************************************************)
(* C4: every call returns an object of its own; what a call returns is     *)
(* the content an invocation for that key produced, whatever callers did   *)
(* to the objects they were returned, and so are the bytes in storage; in  *)
(* a run of non-overlapping calls all calls of one key return equal        *)
(* content.                                                                *)
(***************************************************************************)
C4_OwnCopy ==
    /\ \A r1 \in log, r2 \in log :
          (r1.n # r2.n /\ r1.raised = "" /\ r2.raised = "") => r1.obj # r2.obj
    /\ \A r \in log :
          r.raised = "" => \E i \in vinvs : i.d = r.d /\ i.key = r.key /\ i.val = r.val
    /\ \A r1 \in log, r2 \in log :
          (~overlapped /\ r1.d = r2.d /\ r1.key = r2.key) => r1.val = r2.val
    /\ \A r \in log :
          LET e == StoredEnvelope(stores[dec[r.d]._storage], r.key) IN
          e # Absent => \E i \in vinvs : /\ i.d = r.d /\ i.key = r.key
                                         /\ pickle_loads(e[1].data) = i.val

\* a caller has mutated the object it was returned by the populating call,
\* and a later call of the same key was a hit
C4_Witness ==
    \E r1 \in log, r2 \in log :
        /\ r1.d = r2.d /\ r1.key = r2.key /\ r1.n < r2.n
        /\ r1.invoked /\ ~r2.invoked
        /\ heap[r1.obj].val = 0 /\ r2.val # 0

(***************************************************************************)
(* C7: when the calls happen one after another, two decorators have the    *)
(* same storage instance exactly when their factory_key arguments are      *)
(* equal, and the storage factory has been invoked exactly once for the    *)
(* factory_key of every decorator that has its storage.                    *)
(***************************************************************************)
\* the cache_reference key of the call self._factory(self._factory_key)
FactoryCallKey(d) ==
    make_value_key(make_function_key(WrapperFunc), WrapperFunc, NoEncoders,
                   <<FactoryKeyArg(conf.factory_key[d])>>, <<>>).key

HasStorage(d) == dec[d]._storage # 0

C7_StoragePerFactoryKey ==
    ~overlapped =>
        /\ \A d1 \in Decorators, d2 \in Decorators :
              (HasStorage(d1) /\ HasStorage(d2)) =>
                  ((conf.factory_key[d1] = conf.factory_key[d2])
                      <=> (dec[d1]._storage = dec[d2]._storage))
        /\ \A d \in Decorators :
              HasStorage(d) => Cardinality({i \in invs : i.key = FactoryCallKey(d)}) = 1

\* two decorators with different factory keys have been called one after
\* the other, and each has a storage
C7_Witness ==
    /\ ~overlapped
    /\ \E d1 \in Decorators, d2 \in Decorators :
          /\ conf.factory_key[d1] # conf.factory_key[d2]
          /\ HasStorage(d1) /\ HasStorage(d2)
          /\ dec[d1]._storage # dec[d2]._storage
(***************************************************************************)
(* The key builder on its own: a function, two calls of it, and the keys   *)
(* make_value_key gives them.                                              *)
(***************************************************************************)
MaxArgs == 2

KeyValues == {PyInt(<<"1">>), PyInt(<<"2">>)}

\* def f(a, b)
PlainFunc ==
    [module |-> "app", qualname |-> "f", source |-> "def f(a, b): ...",
     params |-> <<Param(<<"a">>), Param(<<"b">>)>>, is_method |-> FALSE, makes |-> "value"]

\* def g(_x, y)
UnderscoreFunc ==
    [module |-> "app", qualname |-> "g", source |-> "def g(_x, y): ...",
     params |-> <<Param(<<"_", "x">>), Param(<<"y">>)>>, is_method |-> FALSE,
     makes |-> "value"]

\* def v(*_args): its one parameter is VAR_POSITIONAL
VariadicFunc ==
    [module |-> "app", qualname |-> "v", source |-> "def v(*_args): ...",
     params |-> <<[name |-> <<"_", "a", "r", "g", "s">>, positional |-> FALSE]>>,
     is_method |-> FALSE, makes |-> "value"]

\* k.m, for def m(self, x, y) of a class K: a MethodType, whose signature
\* leaves self out and whose calls pass the explicit arguments only
BoundMethod ==
    [module |-> "app", qualname |-> "K.m", source |-> "def m(self, x, y): ...",
     params |-> <<Param(<<"x">>), Param(<<"y">>)>>, is_method |-> TRUE, makes |-> "value"]

KeyFuncs == {PlainFunc, UnderscoreFunc, VariadicFunc, BoundMethod}

\* the sequences over S of length at most n
RECURSIVE SeqsUpTo(_, _)
SeqsUpTo(S, n) ==
    IF n = 0 THEN {<<>>}
    ELSE SeqsUpTo(S, n - 1) \cup {Append(q, x) : q \in SeqsUpTo(S, n - 1), x \in S}

\* the calls of a function: the arguments by position, by keyword in either
\* order, or the first by position and the second by keyword; any number of
\* positional arguments for the variadic function
Calls(func) ==
    IF func.params[1].positional
    THEN LET p == func.params[1].name
             q == func.params[2].name IN
         {[args |-> <<v, w>>, kwargs |-> <<>>] : v \in KeyValues, w \in KeyValues}
         \cup {[args |-> <<v>>, kwargs |-> << <<q, w>> >>] : v \in KeyValues, w \in KeyValues}
         \cup {[args |-> <<>>, kwargs |-> << <<p, v>>, <<q, w>> >>] :
                  v \in KeyValues, w \in KeyValues}
         \cup {[args |-> <<>>, kwargs |-> << <<q, w>>, <<p, v>> >>] :
                  v \in KeyValues, w \in KeyValues}
    ELSE {[args |-> a, kwargs |-> <<>>] : a \in SeqsUpTo(KeyValues, MaxArgs)}

KeyInit ==
    /\ kcall \in UNION {[func : {f}, first : Calls(f), second : Calls(f)] : f \in KeyFuncs}
    /\ kres = <<>>
    /\ now = 0
    /\ res = NoOp
    /\ kind = "none"
    /\ StorageFresh
    /\ PrefixIdle
    /\ RefIdle
    /\ ValueIdle
    /\ WriteIdle
    /\ LaterIdle

\* the wrapper builds the keys of the two calls
MakeKeys ==
    /\ kres = <<>>
    /\ kres' = <<make_value_key(make_function_key(kcall.func), kcall.func, NoEncoders,
                                kcall.first.args, kcall.first.kwargs),
                 make_value_key(make_function_key(kcall.func), kcall.func, NoEncoders,
                                kcall.second.args, kcall.second.kwargs)>>
    /\ UNCHANGED <<now, res, kcall, storageVars, prefixVars, refVars, valueVars, writeVars, laterVars>>

KeyNext == MakeKeys

SpecKey == KeyInit /\ [][KeyNext]_vars

\* the keys of the two calls have been built
KeysBuilt == kres # <<>> /\ kres[1].raised = "" /\ kres[2].raised = ""

\* the two calls pass the same number of positional arguments and the same
\* keywords in the same order
SameShape(c1, c2) ==
    /\ Len(c1.args) = Len(c2.args)
    /\ Len(c1.kwargs) = Len(c2.kwargs)
    /\ \A j \in 1..Len(c1.kwargs) : c1.kwargs[j][1] = c2.kwargs[j][1]

\* the parameter the i-th positional argument of a call is bound to: the
\* i-th parameter when that is a named one, the *args parameter otherwise
BoundParam(func, i) ==
    IF i <= Len(func.params) /\ func.params[i].positional THEN func.params[i]
    ELSE func.params[Len(func.params)]

(***************************************************************************)
(* C13 as stated: the key of a call does not depend on the value of any    *)
(* argument whose parameter name begins with an underscore: two calls of   *)
(* one shape that differ only in the values of such arguments get the same *)
(* key.                                                                    *)
(***************************************************************************)
DifferOnlyInUnderscore(func, c1, c2) ==
    /\ SameShape(c1, c2)
    /\ \A i \in 1..Len(c1.args) :
          c1.args[i] # c2.args[i] => Head(BoundParam(func, i).name) = "_"
    /\ \A j \in 1..Len(c1.kwargs) :
          c1.kwargs[j][2] # c2.kwargs[j][2] => Head(c1.kwargs[j][1]) = "_"

DifferOnlyInNamedUnderscore(func, c1, c2) ==
    /\ SameShape(c1, c2)
    /\ \A i \in 1..Len(c1.args) :
          c1.args[i] # c2.args[i] =>
              (BoundParam(func, i).positional /\ Head(BoundParam(func, i).name) = "_")
    /\ \A j \in 1..Len(c1.kwargs) :
          c1.kwargs[j][2] # c2.kwargs[j][2] => Head(c1.kwargs[j][1]) = "_"

SuppliedPairs(func, c) ==
    [i \in 1..Len(c.args) |-> <<BoundParam(func, i).name, c.args[i]>>] \o c.kwargs

DifferOnlyInFirst(func, c1, c2) ==
    LET p1 == SuppliedPairs(func, c1)
        p2 == SuppliedPairs(func, c2) IN
    /\ SameShape(c1, c2)
    /\ p1 # <<>>
    /\ p1[1][1] = p2[1][1] /\ Head(p1[1][1]) # "_"
    /\ p1[1][2] # p2[1][2]
    /\ Tail(p1) = Tail(p2)

C14_BoundMethodKey ==
    (kres # <<>> /\ kcall.func.is_method
       /\ DifferOnlyInFirst(kcall.func, kcall.first, kcall.second))
        => (KeysBuilt /\ kres[1].key # kres[2].key)

(***************************************************************************)
(* C15: for a function f(a, b), neither parameter underscore-named, the    *)
(* key depends on the order of the pairs: f(v, w) and f(w, v) get          *)
(* different keys when v # w, and f(a=v, b=w) and f(b=w, a=v) get          *)
(* different keys.                                                         *)
(***************************************************************************)
SwappedPositional(c1, c2) ==
    /\ c1.kwargs = <<>> /\ c2.kwargs = <<>>
    /\ Len(c1.args) = 2
    /\ c2.args = <<c1.args[2], c1.args[1]>>
    /\ c1.args[1] # c1.args[2]

SwappedKeywords(c1, c2) ==
    /\ c1.args = <<>> /\ c2.args = <<>>
    /\ Len(c1.kwargs) = 2
    /\ c2.kwargs = <<c1.kwargs[2], c1.kwargs[1]>>

C15_OrderSensitive ==
    (kres # <<>> /\ kcall.func = PlainFunc
       /\ (\/ SwappedPositional(kcall.first, kcall.second)
           \/ SwappedKeywords(kcall.first, kcall.second)))
        => (KeysBuilt /\ kres[1].key # kres[2].key)

\* the keys of f(a=1, b=1) and f(b=1, a=1) have been built
C15_Witness ==
    /\ KeysBuilt
    /\ kcall.func = PlainFunc
    /\ SwappedKeywords(kcall.first, kcall.second)
    /\ kcall.first.kwargs[1][2] = kcall.first.kwargs[2][2]

(***************************************************************************)
(* cache_value given type encoders, and called with arguments that have no *)
(* built-in hashing rule.                                                  *)
(***************************************************************************)
UnhashableArgs == {PyInt(<<"1">>), Conn(<<"c", "1">>), Conn(<<"c", "2">>)}

UnhashableNext ==
    \/ \E t \in Threads, d \in Decorators, a \in UnhashableArgs : ValueCall(t, d, a)
    \/ \E t \in Threads : ValueStep(t)

SpecUnhashable ==
    /\ ValueInitFrom([storage_factory : {"memory"}, serialize : {FALSE},
                      expires_in : {None}, factory_key : {[d \in Decorators |-> None]},
                      type_encoders : {NoEncoders, ConnEncoder, BrokenEncoder, OtherEncoder},
                      returns : {"int"}, faults : {NoFaults}])
    /\ [][UnhashableNext]_vars

\* no built-in rule and no type encoder applies to the value
NoRuleApplies(value, type_encoders) ==
    /\ value.type \notin {"str", "int", "NoneType"}
    /\ \A i \in 1..Len(type_encoders) : type_encoders[i].type # value.type

(***************************************************************************)
(* C11: a call with an argument that no built-in rule and no type encoder  *)
(* applies to raises UnhashableParamError without invoking the function,   *)
(* and when it is the only call made so far, the reference registry and    *)
(* the storages are as they were before it.                                *)
(***************************************************************************)
C11_UnhashableRaisesBeforeAccess ==
    /\ \A r \in log :
          NoRuleApplies(r.args[1], conf.type_encoders) =>
              /\ r.raised = "UnhashableParamError"
              /\ ~r.invoked
              /\ \A i \in vinvs : i.n # r.n
    /\ (started = 1 /\ \E r \in log : NoRuleApplies(r.args[1], conf.type_encoders)) =>
          /\ _ref_storage = <<>>
          /\ stores = <<>>

(***************************************************************************)
(* cache_value over functions whose return value may not be picklable.     *)
(***************************************************************************)
SpecUnserializable ==
    /\ ValueInitFrom([storage_factory : {"memory"}, serialize : {FALSE},
                      expires_in : {None}, factory_key : {[d \in Decorators |-> None]},
                      type_encoders : {NoEncoders}, returns : ResultClasses,
                      faults : {NoFaults}])
    /\ [][CallNext]_vars

\* no storage holds an entry
NothingStored ==
    \A sid \in DOMAIN stores :
        \A key \in DOMAIN stores[sid].content : stores[sid].content[key] = Absent

(***************************************************************************)
(* C12: when the decorated function returns a value pickle.dumps cannot    *)
(* encode, every call invokes the function and then raises                 *)
(* UnserializableReturnValueError, and nothing is written to storage.      *)
(***************************************************************************)
C12_UnserializableResult ==
    pickle_dumps_error(conf.returns) # "" =>
        /\ \A r \in log : /\ r.raised = "UnserializableReturnValueError"
                          /\ \E i \in vinvs : i.n = r.n
        /\ NothingStored

(***************************************************************************)
(* cache_value over a storage backend whose get and set may raise.         *)
(***************************************************************************)
SpecBackend ==
    /\ ValueInitFrom([storage_factory : {"memory"}, serialize : BOOLEAN,
                      expires_in : {None}, factory_key : {[d \in Decorators |-> None]},
                      type_encoders : {NoEncoders}, returns : {"int"},
                      faults : {BackendFaults}])
    /\ [][CallNext]_vars

(***************************************************************************)
(* C16: an ImproperlyConfiguredException raised by storage.get or by       *)
(* storage.set leaves the call as it is, not wrapped in CacheError.        *)
(***************************************************************************)
C16_ImproperlyConfiguredUnwrapped ==
    \A r \in log :
        r.fault = "ImproperlyConfiguredException" => r.raised = "ImproperlyConfiguredException"

(***************************************************************************)
(* C17: when storage.get raises anything but ImproperlyConfiguredException *)
(* the call raises CacheError and the function is not invoked; when        *)
(* storage.set raises, the call raises CacheError after the function was   *)
(* invoked and returns no value; the serialization lock is held only by a  *)
(* thread that is still inside "with lock".                                *)
(***************************************************************************)
C17_BackendErrorIsCacheError ==
    /\ \A r \in log :
          (r.op = "get" /\ r.fault # "ImproperlyConfiguredException") =>
              /\ r.raised = "CacheError"
              /\ \A i \in vinvs : i.n # r.n
    /\ \A r \in log :
          r.op = "set" =>
              /\ r.raised = "CacheError"
              /\ \E i \in vinvs : i.n = r.n
              /\ r.obj = 0
    /\ \A d \in Decorators :
          dec[d].lock # 0 =>
              /\ th[dec[d].lock].d = d
              /\ th[dec[d].lock].vpc \in {"get", "miss", "set"}

\* under allow_concurrent=False a call failed in storage.get and another in
\* storage.set, and a later call of the same decorated function has finished
C17_Witness ==
    /\ conf.serialize
    /\ \E r1 \in log, r2 \in log, r3 \in log :
          /\ r1.op = "get" /\ r1.fault = "ConnectionError"
          /\ r2.op = "set" /\ r2.d = r1.d
          /\ r3.d = r1.d /\ r3.n > r1.n /\ r3.n > r2.n

(***************************************************************************)
(* async_cache_value (value.py).  Its wrapper takes the steps of the       *)
(* cache_value wrapper, with anyio locks and awaited storage calls, so the *)
(* threads of the model stand for tasks and a task can be cancelled where  *)
(* it is suspended: waiting for self._storage_lock, for the lock of the    *)
(* factory's cache_reference wrapper or for the storage factory, waiting   *)
(* for the serialization lock, and awaiting storage.get, the user          *)
(* coroutine or storage.set.                                               *)
(***************************************************************************)
Suspended(t) ==
    \/ th[t].vpc \in {"storage_lock", "lock", "get", "miss", "set"}
    \/ th[t].vpc = "factory" /\ th[t].rpc \in {"acquire", "invoke"}

\* a lock that stays with the task that was cancelled
released_on_cancel_kept(holder, t) == holder

\* "async with" leaves through __aexit__: the lock is released if the
\* cancelled task holds it
released_on_cancel(holder, t) == IF holder = t THEN 0 ELSE holder

\* the task is cancelled: CancelledError is raised at its suspension point,
\* passes the wrapper's "except Exception" handlers and the "async with"
\* blocks, and reaches the caller
Cancel(t) ==
    LET d == th[t].d IN
    /\ Suspended(t)
    /\ dec' = [dec EXCEPT ![d]._storage_lock = released_on_cancel(@, t),
                          ![d].lock = released_on_cancel(@, t)]
    /\ wlock' = [w \in DOMAIN wlock |-> released_on_cancel(wlock[w], t)]
    /\ log' = log \cup {[Finished(t, 0, 0, FALSE, "CancelledError", 0)
                           EXCEPT !.op = th[t].vpc]}
    /\ th' = [th EXCEPT ![t] = IdleThread]
    /\ UNCHANGED <<now, heap, wfunc, _ref_storage, invs, rets, ever, started, stores>>
    /\ UNCHANGED <<conf, vinvs, setseq, overlapped, expiredSeen, nonValueVars>>

CancelNext ==
    \/ \E t \in Threads, d \in Decorators, a \in ValueArgs : ValueCall(t, d, a)
    \/ \E t \in Threads : ValueStep(t)
    \/ \E t \in Threads : Cancel(t)

SpecCancel ==
    /\ ValueInitFrom([storage_factory : {"memory"}, serialize : BOOLEAN,
                      expires_in : {None}, factory_key : {[d \in Decorators |-> None]},
                      type_encoders : {NoEncoders}, returns : {"int"},
                      faults : {NoFaults}])
    /\ [][CancelNext]_vars

(***************************************************************************)
(* C18: whatever calls were cancelled, and wherever, every lock is held    *)
(* only by a task that is still inside the block the lock guards, and      *)
(* every entry in a storage was written by a call whose storage.set        *)
(* completed (a call that returned its value), never by a cancelled one.   *)
(***************************************************************************)
C18_CancelReleasesAndWritesNothing ==
    /\ \A d \in Decorators :
          /\ dec[d].lock # 0 =>
                (th[dec[d].lock].d = d /\ th[dec[d].lock].vpc \in {"get", "miss", "set"})
          /\ dec[d]._storage_lock # 0 =>
                (th[dec[d]._storage_lock].d = d /\ th[dec[d]._storage_lock].vpc = "factory")
    /\ \A w \in DOMAIN wlock :
          wlock[w] # 0 =>
              (th[wlock[w]].w = w /\ th[wlock[w]].rpc \in {"lookup", "invoke", "store"})
    /\ \A sid \in DOMAIN stores :
          \A key \in DOMAIN stores[sid].content :
              LET e == StoredEnvelope(stores[sid], key) IN
              e # Absent =>
                  \E r \in log : /\ r.raised = "" /\ r.invoked /\ r.key = key
                                 /\ dec[r.d]._storage = sid
                                 /\ pickle_loads(e[1].data) = r.val

\* under allow_concurrent=False a call was cancelled while it held the
\* serialization lock, one while it held self._storage_lock, and a later
\* call of the same decorated function returned a value
C18_Witness ==
    /\ conf.serialize
    /\ \E r1 \in log, r2 \in log, r3 \in log :
          /\ r1.raised = "CancelledError" /\ r1.op = "factory"
          /\ r2.raised = "CancelledError" /\ r2.op \in {"get", "miss", "set"}
          /\ r2.d = r1.d /\ r3.d = r1.d
          /\ r3.raised = "" /\ r3.n > r1.n /\ r3.n > r2.n

(***************************************************************************)
(* FileStorage.set step by step (storage/file.py), with several writers    *)
(* and readers on one directory.  A writer's temp file is named            *)
(* "<target>.tmp<random>": no key's file name holds a ".", so no reader    *)
(* opens it, and it is kept apart from the files of the keys.  get reads   *)
(* the file it opened in full, so it is one step.                          *)
(***************************************************************************)
NWriters == 2

Writers == 1..NWriters

WriteKeys == {<<"k">>}

\* expires_in arguments of the writers: unset, and an invalid zero
WriteExpiresIn == {None, Some(0)}

IdleWriter ==
    [pc |-> "idle", key |-> <<>>, bytes |-> None, tmp |-> "none", rec |-> None]

WriteInit ==
    /\ now = 0
    /\ res = NoOp
    /\ kind = "file"
    /\ StorageFresh
    /\ fw = [w \in Writers |-> IdleWriter]
    /\ PrefixIdle
    /\ RefIdle
    /\ ValueIdle
    /\ KeyIdle
    /\ LaterIdle

\* FileStorage.set up to tempfile.mkstemp: the directory is made, the
\* envelope is built (ValueError for an invalid expires_in) and the temp
\* file is created empty; an OSError of mkstemp is swallowed by _write
Write_mkstemp(w, k, v, t, oserr) ==
    LET stored_value == StoredObject_new(v, t, now) IN
    /\ fw[w].pc = "idle"
    /\ dir_exists' = TRUE
    /\ IF stored_value = None
       THEN /\ res' = Outcome("set", k, None, "ValueError", NoEntries)
            /\ UNCHANGED fw
       ELSE /\ fw' = IF oserr THEN fw
                     ELSE [fw EXCEPT ![w] = [IdleWriter EXCEPT
                              !.pc = "write", !.key = k,
                              !.bytes = Some(pickle_dumps(stored_value[1])),
                              !.tmp = "empty", !.rec = Some(SetRecord(v, t))]]
            /\ UNCHANGED res
    /\ UNCHANGED <<now, kind, _mem, files, lastSet, deleted>>
    /\ UNCHANGED <<prefixVars, refVars, valueVars, keyVars, laterVars>>

\* os.write(tmp_file_fd, ...) and os.close: the write puts all the bytes in
\* the temp file ("full"), or returns after a leading part of them without
\* an error ("short": the count it returns is not looked at), or raises
\* OSError, after which the temp file is unlinked and the error swallowed
Write_write(w, outcome) ==
    /\ fw[w].pc = "write"
    /\ fw' = IF outcome = "error" THEN [fw EXCEPT ![w] = IdleWriter]
             ELSE [fw EXCEPT ![w].pc = "replace",
                             ![w].tmp = IF outcome = "full" THEN "full" ELSE "partial"]
    /\ UNCHANGED <<now, res, storageVars, prefixVars, refVars, valueVars, keyVars, laterVars>>

\* os.replace(tmp_file_name, target_file): the target is now the temp file;
\* on OSError the temp file is unlinked and the error swallowed
Write_replace(w, oserr) ==
    LET path == _path_from_key(fw[w].key)
        content == IF fw[w].tmp = "full" THEN fw[w].bytes[1]
                   ELSE truncated_bytes(fw[w].bytes[1]) IN
    /\ fw[w].pc = "replace"
    /\ IF oserr
       THEN UNCHANGED <<files, lastSet, deleted>>
       ELSE /\ files' = [files EXCEPT ![path] = Some(content)]
            /\ lastSet' = [lastSet EXCEPT ![fw[w].key] = fw[w].rec]
            /\ deleted' = deleted \ {fw[w].key}
    /\ fw' = [fw EXCEPT ![w] = IdleWriter]
    /\ UNCHANGED <<now, res, kind, _mem, dir_exists>>
    /\ UNCHANGED <<prefixVars, refVars, valueVars, keyVars, laterVars>>

\* the writer's process dies after mkstemp and before os.replace: the temp
\* file stays where it is, the target is not touched
Write_crash(w) ==
    /\ fw[w].pc \in {"write", "replace"}
    /\ fw' = [fw EXCEPT ![w] = IdleWriter]
    /\ UNCHANGED <<now, res, storageVars, prefixVars, refVars, valueVars, keyVars, laterVars>>

\* FileStorage.get by any reader
Write_get(k) ==
    /\ FileStorage_get(k)
    /\ UNCHANGED fw

WriteNext ==
    \/ \E w \in Writers, k \in WriteKeys, v \in Values, t \in WriteExpiresIn, oserr \in BOOLEAN :
          Write_mkstemp(w, k, v, t, oserr)
    \/ \E w \in Writers, outcome \in {"full", "short", "error"} : Write_write(w, outcome)
    \/ \E w \in Writers, oserr \in BOOLEAN : Write_replace(w, oserr)
    \/ \E w \in Writers : Write_crash(w)
    \/ \E k \in WriteKeys : Write_get(k)

SpecFileWrite == WriteInit /\ [][WriteNext]_vars

(***************************************************************************)
(* C19: every get of a key returns, in full and without raising, the value *)
(* of the latest set of the key whose rename happened, and null when there *)
(* was none: a set that is under way, was interrupted before its rename or *)
(* failed is not seen.                                                     *)
(***************************************************************************)
C19_AtomicWrite ==
    res.op = "get" =>
        /\ res.raised = ""
        /\ res.out = IF res.before[res.key] = None THEN None
                     ELSE Some(res.before[res.key][1].data)

(***************************************************************************)
(* C20: FileStorage.get returns without raising, whether the file of the   *)
(* key is missing or holds bytes that cannot be decoded.                   *)
(***************************************************************************)
C20_GetNeverRaises ==
    res.op = "get" => (res.raised = "" /\ (res.before[res.key] = None => res.out = None))

(***************************************************************************)
(* C29: whatever type encoders the decorator was given, a call whose       *)
(* argument matches no built-in rule and no type encoder (and has no       *)
(* usable reduce form) raises UnhashableParamError, and no two calls with  *)
(* different such arguments are given the same key.                        *)
(***************************************************************************)
C29_NoEncoderMatchesRaises ==
    /\ \A r \in log :
          NoRuleApplies(r.args[1], conf.type_encoders) => r.raised = "UnhashableParamError"
    /\ \A r1 \in log, r2 \in log :
          (/\ NoRuleApplies(r1.args[1], conf.type_encoders)
           /\ NoRuleApplies(r2.args[1], conf.type_encoders)
           /\ r1.args # r2.args /\ r1.d = r2.d)
              => ~(r1.raised = "" /\ r2.raised = "" /\ r1.key = r2.key)

(***************************************************************************)
(* C25: a set with a zero or negative expires_in raises ValueError and     *)
(* leaves every stored entry as it was; any other set stores an envelope   *)
(* whose expires_at is absent or strictly later than the time of the set.  *)
(***************************************************************************)
ExpiresAfter(sv, created) == sv.expires_at = None \/ sv.expires_at[1] > created

\* lastSet keeps the expires_in of the last successful set of each key
C25_ExpiryStrictlyAfterCreation ==
    [][(res'.op = "set") =>
          IF res'.raised # ""
          THEN res'.raised = "ValueError" /\ Entries' = Entries
          ELSE LET t == lastSet'[res'.key][1].expires_in IN
               /\ t = None \/ t[1] > 0
               /\ Entries'[res'.key] # Absent
               /\ ExpiresAfter(Entries'[res'.key][1], now)]_vars

\* a set has just been refused over an entry that is still stored
C25_Witness ==
    /\ res.op = "set" /\ res.raised = "ValueError"
    /\ Entries[res.key] # Absent

(***************************************************************************)
(* C26: right after a get, the backing store holds no expired envelope     *)
(* under the key that was read (Mongo collection).                         *)
(***************************************************************************)
C26_ExpiredGetDeletesMongo ==
    (backend = "mongo" /\ res.op = "get") =>
        LET data == Lookup(mongo, Mongo_make_key(res.prefix, res.key)) IN
        data = Absent \/ ~expired(pickle_loads(data[1].value), now)

\* the same for the in-memory mapping and the cache directory
C26_ExpiredGetDeletesLocal ==
    (kind \in {"memory", "file"} /\ res.op = "get" /\ res.raised = "") =>
        (Entries[res.key] = Absent \/ ~expired(Entries[res.key][1], now))

(***************************************************************************)
(* FileStorage.get next to FileStorage.set on one instance used by several *)
(* threads (storage/file.py).  get reads the file, then looks at the       *)
(* envelope and unlinks the path of an expired one: two steps, and other   *)
(* threads run in between.  A set is seen at its os.replace.               *)
(***************************************************************************)
NReaders == 2

Readers == 1..NReaders
RaceKeys == {<<"k">>}
RaceExpiresIn == {None, Some(1)}

\* before: the last set of the key completed when the get started
IdleReader ==
    [pc |-> "idle", key |-> <<>>, stored_value |-> Absent, before |-> None,
     out |-> None, at |-> 0]

RaceInit ==
    /\ now = 0
    /\ res = NoOp
    /\ kind = "file"
    /\ StorageFresh
    /\ fr = [r \in Readers |-> IdleReader]
    /\ PrefixIdle
    /\ RefIdle
    /\ ValueIdle
    /\ KeyIdle
    /\ WriteIdle
    /\ LazyIdle
    /\ HashIdle
    /\ DecoIdle
    /\ NestIdle

\* FileStorage.get, first half: stored_value = self._load_from_path(path)
Race_load(r, k) ==
    LET loaded == _load_from_path(_path_from_key(k)) IN
    /\ fr[r].pc \in {"idle", "done"}
    /\ fr' = [fr EXCEPT ![r] = [pc |-> "loaded", key |-> k, stored_value |-> loaded.out,
                                 before |-> lastSet[k], out |-> None, at |-> now]]
    /\ UNCHANGED <<now, res, storageVars, prefixVars, refVars, valueVars, keyVars, writeVars,
                   nestVars, lazyVars, hashVars, decoVars>>

\* path.unlink(missing_ok=True): whatever file is at the path now is removed
unlink(path, stored_value) == [files EXCEPT ![path] = Absent]

\* FileStorage.get, second half: the checks of the envelope that was read
Race_finish(r) ==
    LET k == fr[r].key
        path == _path_from_key(k)
        stored_value == fr[r].stored_value
        out == IF stored_value = Absent \/ expired(stored_value[1], now)
               THEN None ELSE Some(stored_value[1].data) IN
    /\ fr[r].pc = "loaded"
    /\ files' = IF stored_value # Absent /\ expired(stored_value[1], now)
                THEN unlink(path, stored_value[1]) ELSE files
    /\ fr' = [fr EXCEPT ![r] = [@ EXCEPT !.pc = "done", !.out = out, !.at = now]]
    /\ res' = Outcome("get", k, out, "", lastSet)
    /\ UNCHANGED <<now, kind, _mem, dir_exists, lastSet, deleted>>
    /\ UNCHANGED <<prefixVars, refVars, valueVars, keyVars, writeVars,
                   nestVars, lazyVars, hashVars, decoVars>>

RaceNext ==
    \/ Tick
    \/ \E k \in RaceKeys, v \in Values, t \in RaceExpiresIn : FileStorage_set(k, v, t, FALSE)
    \/ \E k \in RaceKeys : FileStorage_delete(k)
    \/ \E r \in Readers, k \in RaceKeys : Race_load(r, k)
    \/ \E r \in Readers : Race_finish(r)

SpecFileRace == RaceInit /\ [][RaceNext]_vars

\* the value of a completed set is not yet expired at time t
Live(rec, t) == rec.expires_in = None \/ t < rec.created + rec.expires_in[1]

(***************************************************************************)
(* C21: a get that started after set(K, v) completed, with no delete of K  *)
(* and no later completed set of K before it started, returns v as long as *)
(* v has not expired, whatever other threads did meanwhile.                *)
(***************************************************************************)
C21_CompletedSetIsRead ==
    \A r \in DOMAIN fr :
        (fr[r].pc = "done" /\ fr[r].before # None /\ Live(fr[r].before[1], fr[r].at))
            => fr[r].out = Some(fr[r].before[1].data)

(***************************************************************************)
(* MongoStorage: the collection is made ready on first use by the          *)
(* _create_collection wrapper of set, get, delete and delete_all, and      *)
(* every backend call goes through _retry_for_auto_reconnect               *)
(* (storage/mongo.py).  Threads call the methods of one instance; each     *)
(* attempt of a backend call is one step, with the sleep that follows a    *)
(* failed one.  Times are in milliseconds.                                 *)
(***************************************************************************)
DEFAULT_CAP == 512
DEFAULT_BASE == 8
MAX_FAILURES == 4

NCallers == 2
MaxMongoCalls == 2

Callers == 1..NCallers
MongoOps == {"get", "delete_all"}

\* the retry settings an instance may be constructed with: the defaults, a
\* cap that is reached at the second failure, no retry, and no backoff
MongoConfs ==
    {[max_failures |-> MAX_FAILURES, base_backoff |-> DEFAULT_BASE, max_backoff |-> DEFAULT_CAP],
     [max_failures |-> 2, base_backoff |-> 1, max_backoff |-> 3],
     [max_failures |-> 0, base_backoff |-> 1, max_backoff |-> 3],
     [max_failures |-> 1, base_backoff |-> 0, max_backoff |-> 3]}

\* MongoStorage (threading.Lock, the method runs inside the lock on first
\* use) or AsyncMongoStorage (anyio.Lock, the method runs after the lock)
MongoFlavors == {"sync", "async"}

\* what one attempt of a backend call may do
AttemptOutcomes == {"ok", "AutoReconnect", "OperationFailure"}

RECURSIVE Pow2(_)
Pow2(n) == IF n <= 0 THEN 1 ELSE 2 * Pow2(n - 1)

min(a, b) == IF a <= b THEN a ELSE b

\* a backoff that starts at the base
backoff_from_base(c, failures) == min(c.max_backoff, c.base_backoff * Pow2(failures - 1))

\* _retry_for_auto_reconnect: min(self._max_backoff, self._base_backoff * 2**failures)
backoff(c, failures) == min(c.max_backoff, c.base_backoff * Pow2(failures))

\* the second look at _has_collection, under the lock; without it
double_check_skipped(has_collection) == FALSE

double_check(has_collection) == has_collection

\* what leaves the wrapper when create_indexes raised exc; unwrapped
raise_from_create_unwrapped(exc) == exc

\* except OperationFailure as e: raise ImproperlyConfiguredException(...) from e
raise_from_create(exc) ==
    IF exc = "OperationFailure" THEN "ImproperlyConfiguredException" ELSE exc

\* pc: idle, acquire (waiting for self._lock), create (create_indexes in the
\* retry loop), publish1, publish2 (the two assignments), method (the wrapped
\* method builds its call), call (the call in the retry loop), done.
\* failures, attempts, sleeps: of the retry loop the thread is in or was last in.
IdleCaller ==
    [pc |-> "idle", op |-> "", failures |-> 0, attempts |-> 0, sleeps |-> <<>>,
     raised |-> "", cause |-> "", out |-> None, issued |-> FALSE, uninit |-> FALSE,
     first |-> FALSE, calls |-> 0]

LazyInit ==
    /\ mconf \in [max_failures : {c.max_failures : c \in MongoConfs},
                  base_backoff : {c.base_backoff : c \in MongoConfs},
                  max_backoff : {c.max_backoff : c \in MongoConfs},
                  flavor : MongoFlavors]
    /\ [max_failures |-> mconf.max_failures, base_backoff |-> mconf.base_backoff,
        max_backoff |-> mconf.max_backoff] \in MongoConfs
    /\ _has_collection = FALSE
    /\ _collection = None
    /\ _lock = 0
    /\ mth = [t \in Callers |-> IdleCaller]
    /\ ncreated = 0
    /\ now = 0
    /\ res = NoOp
    /\ kind = "none"
    /\ StorageFresh
    /\ PrefixIdle
    /\ RefIdle
    /\ ValueIdle
    /\ KeyIdle
    /\ WriteIdle
    /\ RaceIdle
    /\ HashIdle
    /\ DecoIdle
    /\ NestIdle

LazyRest ==
    UNCHANGED <<now, res, storageVars, prefixVars, refVars, valueVars, keyVars, writeVars,
                raceVars, nestVars, hashVars, decoVars, mconf>>

\* the wrapper is entered: if self._has_collection: return method(...)
Lazy_call(t, op) ==
    /\ mth[t].pc \in {"idle", "done"}
    /\ mth[t].calls < MaxMongoCalls
    /\ mth' = [mth EXCEPT ![t] = [IdleCaller EXCEPT
                  !.pc = IF _has_collection THEN "method" ELSE "acquire",
                  !.op = op, !.first = ~_has_collection, !.calls = mth[t].calls]]
    /\ UNCHANGED <<_has_collection, _collection, _lock, ncreated>>
    /\ LazyRest

\* with self._lock: if self._has_collection: return method(...)
Lazy_acquire(t) ==
    /\ mth[t].pc = "acquire"
    /\ _lock = 0
    /\ IF double_check(_has_collection)
       THEN /\ mth' = [mth EXCEPT ![t].pc = "method"]
            /\ _lock' = IF mconf.flavor = "sync" THEN t ELSE 0
       ELSE /\ mth' = [mth EXCEPT ![t].pc = "create"]
            /\ _lock' = t
    /\ UNCHANGED <<_has_collection, _collection, ncreated>>
    /\ LazyRest

\* the thread leaves the wrapper, by return or by exception; the with
\* statement releases the lock it holds
Leave(t, raised, cause, out, attempted) ==
    /\ mth' = [mth EXCEPT ![t] = [@ EXCEPT !.pc = "done", !.raised = raised, !.cause = cause,
                                          !.out = out, !.attempts = @ + attempted,
                                          !.calls = @ + 1]]
    /\ _lock' = IF _lock = t THEN 0 ELSE _lock

\* one pass of the loop of _retry_for_auto_reconnect, around create_indexes
\* (pc = "create") or around the call of the wrapped method (pc = "call")
Lazy_attempt(t, outcome) ==
    LET failures == mth[t].failures + 1
        slept == IF backoff(mconf, failures) > 0 THEN backoff(mconf, failures) ELSE 0 IN
    /\ mth[t].pc \in {"create", "call"}
    /\ IF outcome = "ok"
       THEN IF mth[t].pc = "create"
            THEN /\ ncreated' = ncreated + 1
                 /\ mth' = [mth EXCEPT ![t].pc = "publish1", ![t].attempts = @ + 1]
                 /\ UNCHANGED _lock
            ELSE /\ Leave(t, "", "", Some(mth[t].op), 1)
                 /\ UNCHANGED ncreated
       ELSE IF outcome = "AutoReconnect" /\ failures <= mconf.max_failures
       THEN /\ mth' = [mth EXCEPT ![t].failures = failures, ![t].attempts = @ + 1,
                                  ![t].sleeps = Append(@, slept)]
            /\ UNCHANGED <<_lock, ncreated>>
       ELSE /\ IF mth[t].pc = "create"
               THEN Leave(t, raise_from_create(outcome), outcome, None, 1)
               ELSE Leave(t, outcome, "", None, 1)
            /\ UNCHANGED ncreated
    /\ UNCHANGED <<_has_collection, _collection>>
    /\ LazyRest

\* self._collection = collection
Lazy_publish1(t) ==
    /\ mth[t].pc = "publish1"
    /\ _collection' = Some("collection")
    /\ mth' = [mth EXCEPT ![t].pc = "publish2"]
    /\ UNCHANGED <<_has_collection, _lock, ncreated>>
    /\ LazyRest

\* self._has_collection = True, and on to the method
Lazy_publish2(t) ==
    /\ mth[t].pc = "publish2"
    /\ _has_collection' = TRUE
    /\ mth' = [mth EXCEPT ![t].pc = "method"]
    /\ _lock' = IF mconf.flavor = "sync" THEN _lock ELSE 0
    /\ UNCHANGED <<_collection, ncreated>>
    /\ LazyRest

\* the wrapped method: _get, _set, _delete or _delete_all asserts
\* self._collection is not None and binds the call to the collection; the
\* retry loop of the call starts
Lazy_method(t) ==
    /\ mth[t].pc = "method"
    /\ IF _collection = None
       THEN Leave(t, "AssertionError", "", None, 0)
       ELSE /\ mth' = [mth EXCEPT ![t] = [@ EXCEPT !.pc = "call", !.issued = TRUE,
                                                 !.uninit = ~_has_collection,
                                                 !.failures = 0, !.attempts = 0,
                                                 !.sleeps = <<>>]]
            /\ UNCHANGED _lock
    /\ UNCHANGED <<_has_collection, _collection, ncreated>>
    /\ LazyRest

LazyNext ==
    \/ \E t \in Callers, op \in MongoOps : Lazy_call(t, op)
    \/ \E t \in Callers : Lazy_acquire(t)
    \/ \E t \in Callers, outcome \in AttemptOutcomes : Lazy_attempt(t, outcome)
    \/ \E t \in Callers : Lazy_publish1(t)
    \/ \E t \in Callers : Lazy_publish2(t)
    \/ \E t \in Callers : Lazy_method(t)

SpecMongoLazy == LazyInit /\ [][LazyNext]_vars

C22_AtMostMaxFailuresPlusOne ==
    \A t \in DOMAIN mth :
        /\ mth[t].attempts <= mconf.max_failures + 1
        /\ (mth[t].pc = "done" /\ mth[t].raised = "") => mth[t].out = Some(mth[t].op)

(***************************************************************************)
(* C23: under concurrent first use create_indexes succeeds at most once,   *)
(* _has_collection goes from false to true once and never back, implies    *)
(* that _collection is set, and no method issues its call while the        *)
(* storage is uninitialized.                                               *)
(***************************************************************************)
InitializedOnce ==
    /\ ncreated <= 1
    /\ _has_collection => (_collection # None /\ ncreated = 1)
    /\ \A t \in DOMAIN mth : ~mth[t].uninit /\ (mth[t].issued => _has_collection)

C23_LazyInitOnce ==
    /\ []InitializedOnce
    /\ [][/\ _has_collection => _has_collection'
          /\ _collection # None => _collection' = _collection]_vars

\* both threads entered while the storage was uninitialized, and both have
\* run their method
C23_Witness ==
    /\ ncreated = 1
    /\ \A t \in DOMAIN mth :
          mth[t].pc = "done" /\ mth[t].first /\ mth[t].issued /\ mth[t].raised = ""
    /\ mth # <<>>

(***************************************************************************)
(* C24: when create_indexes fails with OperationFailure the caller gets    *)
(* ImproperlyConfiguredException, the storage is left uninitialized, the   *)
(* lock is released and the wrapped method has not been run.               *)
(***************************************************************************)
C24_OperationFailureAborts ==
    [][\A t \in DOMAIN mth :
          (mth[t].pc = "create" /\ mth'[t].pc = "done" /\ mth'[t].cause = "OperationFailure")
             => /\ mth'[t].raised = "ImproperlyConfiguredException"
                /\ ~_has_collection'
                /\ _collection' = None
                /\ _lock' = 0
                /\ ~mth'[t].issued]_vars

C24_Witness ==
    \E t \in DOMAIN mth :
        /\ mth[t].pc = "done" /\ mth[t].cause = "OperationFailure"
        /\ mth[t].raised = "ImproperlyConfiguredException"
        /\ ~_has_collection /\ _lock = 0

(***************************************************************************)
(* C30: the sleep after the n-th consecutive failure of a retry loop is    *)
(* min(max_backoff, base_backoff * 2^n); within one loop the sleeps never  *)
(* decrease and none exceeds max_backoff.                                  *)
(***************************************************************************)
C30_TruncatedExponentialBackoff ==
    \A t \in DOMAIN mth :
        LET sleeps == mth[t].sleeps IN
        \A n \in 1..Len(sleeps) :
            /\ sleeps[n] = min(mconf.max_backoff, mconf.base_backoff * Pow2(n))
            /\ sleeps[n] <= mconf.max_backoff
            /\ n > 1 => sleeps[n - 1] <= sleeps[n]

\* a loop whose second sleep is the cap and whose first is shorter
C30_Witness ==
    \E t \in DOMAIN mth :
        /\ Len(mth[t].sleeps) >= 2
        /\ mth[t].sleeps[1] < mth[t].sleeps[2]
        /\ mth[t].sleeps[2] = mconf.max_backoff

(***************************************************************************)
(* Hashing containers (_hashing.py to_bytes, _to_bytes for list, tuple and *)
(* dict).  The objects of a session are containers at addresses (id(obj)); *)
(* an item is an int or another container.  A dict has the keys "a", "b"   *)
(* in the order of its items.  The same objects live at other addresses in *)
(* another session.                                                        *)
(***************************************************************************)
MaxNodes == 2
MaxRuns == 2

Nodes == 1..MaxNodes
Addresses == 1..(MaxNodes + 1)

Object(n) == [type |-> "object", val |-> str(n)]
NodeOf(item) == CHOOSE n \in Nodes : str(n) = item.val

Items == {PyInt(<<"1">>)} \cup {Object(n) : n \in Nodes}
ItemSeqs == {<<>>} \cup {<<x>> : x \in Items} \cup {<<x, y>> : x \in Items, y \in Items}
DictKeys == <<"a", "b">>

Refs(o) == {NodeOf(o.items[i]) : i \in {j \in 1..Len(o.items) : o.items[j].type = "object"}}

\* the objects reached from those of S in at most k steps, through the
\* containers whose type is in types
RECURSIVE Reach(_, _, _, _)
Reach(objects, S, types, k) ==
    IF k = 0 THEN S
    ELSE Reach(objects,
               S \cup UNION {Refs(objects[n]) : n \in {m \in S : objects[m].type \in types}},
               types, k - 1)

ContainerTypes == {"list", "tuple", "dict"}

\* the container n contains itself, directly or through others
ContainsItself(objects, n) ==
    n \in Reach(objects, Refs(objects[n]), ContainerTypes, MaxNodes)

\* a tuple is immutable: Python cannot build a cycle made of tuples only
Buildable(objects) ==
    \A n \in Nodes :
        objects[n].type = "tuple" =>
            n \notin Reach(objects, {m \in Refs(objects[n]) : objects[m].type = "tuple"},
                           {"tuple"}, MaxNodes)

\* the addresses of the objects in one session
Sessions == {id \in [Nodes -> Addresses] : \A n, m \in Nodes : id[n] = id[m] => n = m}

_CYCLE_PLACEHOLDER == <<"cycle", <<>>>>

Diverges == [raised |-> "RecursionError", b |-> <<>>]

\* a stack on which nothing is ever found
in_stack_never(address, stack) == FALSE

\* HashStack.__contains__: id(val) in self._stack
in_stack(address, stack) == address \in stack

\* the interpreter's recursion limit, deeper than any acyclic nesting here
HashFuel == MaxNodes + 2

\* CacheFuncHasher.to_bytes of an item, the hash stack holding the
\* addresses in stack; every nested call uses one unit of fuel
RECURSIVE stack_to_bytes(_, _, _, _, _)
stack_to_bytes(objects, id, item, stack, fuel) ==
    IF fuel = 0 THEN Diverges
    ELSE IF item.type # "object" THEN to_bytes(item, NoEncoders)
    ELSE LET n == NodeOf(item)
             o == objects[n]
             pushed == stack \cup {id[n]}
             values == [i \in 1..Len(o.items) |->
                           stack_to_bytes(objects, id, o.items[i], pushed, fuel - 1)]
             parts == [i \in 1..Len(o.items) |->
                          IF o.type = "dict" /\ values[i].raised = ""
                          THEN Hashed(<<"tuple", <<to_bytes(PyStr(<<DictKeys[i]>>), NoEncoders).b,
                                                  values[i].b>>>>)
                          ELSE values[i]]
             bad == {i \in 1..Len(o.items) : parts[i].raised # ""}
         IN  IF in_stack(id[n], stack) THEN Hashed(_CYCLE_PLACEHOLDER)
             ELSE IF bad # {} THEN parts[CHOOSE i \in bad : \A j \in bad : i <= j]
             ELSE Hashed(<<o.type, [i \in 1..Len(o.items) |-> parts[i].b]>>)

\* update_hash(obj, hasher): a new hasher, the thread's hash stack empty
update_hash(objects, id, root) == stack_to_bytes(objects, id, Object(root), {}, HashFuel)

CycleInit ==
    /\ hobj \in [objects : [Nodes -> [type : ContainerTypes, items : ItemSeqs]], root : Nodes]
    /\ Buildable(hobj.objects)
    /\ hruns = <<>>
    /\ now = 0
    /\ res = NoOp
    /\ kind = "none"
    /\ StorageFresh
    /\ PrefixIdle
    /\ RefIdle
    /\ ValueIdle
    /\ KeyIdle
    /\ WriteIdle
    /\ RaceIdle
    /\ LazyIdle
    /\ DecoIdle
    /\ NestIdle

\* the object is fingerprinted in a session where the objects are at id;
\* the session may be one that fingerprinted it before
Fingerprint(id) ==
    /\ Len(hruns) < MaxRuns
    /\ hruns' = Append(hruns, [id |-> id, digest |-> update_hash(hobj.objects, id, hobj.root)])
    /\ UNCHANGED <<now, res, storageVars, prefixVars, refVars, valueVars, keyVars, writeVars,
                   raceVars, nestVars, lazyVars, decoVars, hobj>>

CycleNext == \E id \in Sessions : Fingerprint(id)

SpecCycle == CycleInit /\ [][CycleNext]_vars

(***************************************************************************)
(* C27: fingerprinting a container that contains itself, directly or       *)
(* through other containers, terminates, and every fingerprint of it, in   *)
(* the same or in another session, is the same digest.                     *)
(***************************************************************************)
C27_CycleTolerance ==
    (hobj # <<>> /\ ContainsItself(hobj.objects, hobj.root)) =>
        /\ \A i \in 1..Len(hruns) : hruns[i].digest.raised = ""
        /\ \A i \in 1..Len(hruns), j \in 1..Len(hruns) : hruns[i].digest = hruns[j].digest

\* a dict that holds a tuple that holds the dict, fingerprinted in two sessions
C27_Witness ==
    /\ hobj # <<>>
    /\ ContainsItself(hobj.objects, hobj.root)
    /\ hobj.objects[hobj.root].type = "dict"
    /\ \E n \in Refs(hobj.objects[hobj.root]) : hobj.objects[n].type = "tuple"
    /\ Len(hruns) = MaxRuns
    /\ hruns[1].id # hruns[MaxRuns].id

(***************************************************************************)
(* Decoration (value.py cache_value.__call__, async_cache_value.__call__). *)
(* A decorator is constructed and applied to a function; the wrapper it    *)
(* returns, if any, may then be called, which makes the decorator resolve  *)
(* its storage.                                                            *)
(***************************************************************************)
MaxDecorations == 2

DecoratorClasses == {"cache_value", "async_cache_value"}

\* the callables a decorator may be applied to: a def, an async def, and
\* functools.partial objects of either
DecoFuncs ==
    {[kind |-> "def", wraps |-> ""], [kind |-> "async def", wraps |-> ""],
     [kind |-> "partial", wraps |-> "def"], [kind |-> "partial", wraps |-> "async def"]}

\* a test that takes no callable for a coroutine function
iscoroutinefunction_never(func) == FALSE

\* inspect.iscoroutinefunction: partial objects are unwrapped first
iscoroutinefunction(func) ==
    IF func.kind = "partial" THEN func.wraps = "async def" ELSE func.kind = "async def"

\* __call__ up to the return of the wrapper: the TypeError raised, or ""
decorate_raises(class, func) ==
    IF class = "cache_value"
    THEN IF iscoroutinefunction(func) THEN "TypeError" ELSE ""
    ELSE IF ~iscoroutinefunction(func) THEN "TypeError" ELSE ""

DecoInit ==
    /\ decs = <<>>
    /\ now = 0
    /\ res = NoOp
    /\ kind = "none"
    /\ StorageFresh
    /\ PrefixIdle
    /\ RefIdle
    /\ ValueIdle
    /\ KeyIdle
    /\ WriteIdle
    /\ RaceIdle
    /\ LazyIdle
    /\ HashIdle
    /\ NestIdle

DecoRest ==
    UNCHANGED <<now, res, storageVars, prefixVars, refVars, valueVars, keyVars, writeVars,
                raceVars, nestVars, lazyVars, hashVars>>

\* class(...)(func): __init__ leaves self._storage None; __call__ raises
\* or returns the wrapper of func
Decorate(class, func) ==
    LET raised == decorate_raises(class, func) IN
    /\ Len(decs) < MaxDecorations
    /\ decs' = Append(decs, [class |-> class, func |-> func, raised |-> raised,
                             wrapper |-> IF raised = "" THEN Some(func) ELSE None,
                             _storage |-> None])
    /\ DecoRest

\* a returned wrapper is called for the first time: self._storage is set to
\* what the storage factory returns
CallWrapper(i) ==
    /\ decs[i].wrapper # None
    /\ decs[i]._storage = None
    /\ decs' = [decs EXCEPT ![i]._storage = Some("storage")]
    /\ DecoRest

DecoNext ==
    \/ \E class \in DecoratorClasses, func \in DecoFuncs : Decorate(class, func)
    \/ \E i \in 1..Len(decs) : CallWrapper(i)

SpecDecorate == DecoInit /\ [][DecoNext]_vars

\* the function is declared with async def, or is a partial of one that is
Suspending(func) == func.kind = "async def" \/ func.wraps = "async def"

(***************************************************************************)
(* C28: cache_value applied to a coroutine function, and async_cache_value *)
(* applied to a function that is not one, raise TypeError; no wrapper is   *)
(* returned and no storage is ever created for that decoration.            *)
(***************************************************************************)
C28_FlavorMismatchRaises ==
    \A i \in 1..Len(decs) :
        ((decs[i].class = "cache_value") = Suspending(decs[i].func))
            => /\ decs[i].raised = "TypeError"
               /\ decs[i].wrapper = None
               /\ decs[i]._storage = None

\* a refused decoration next to an accepted one whose wrapper has been called
C28_Witness ==
    \E i \in 1..Len(decs), j \in 1..Len(decs) :
        /\ decs[i].class = "cache_value" /\ Suspending(decs[i].func)
        /\ decs[i].raised = "TypeError"
        /\ decs[j]._storage # None

(***************************************************************************)
(* C38: for Mongo storage, after any sequence of set calls on a key the    *)
(* document's expiresAt is that of the most recent set: never earlier than *)
(* the expires_at of the envelope stored in value, and the far-future      *)
(* sentinel when the most recent set had no expiry.                        *)
(***************************************************************************)
C38_ExpiresAtOfLatestSet ==
    backend = "mongo" =>
        \A key \in MongoKeys :
            mongo[key] # Absent =>
                LET stored_value == pickle_loads(mongo[key][1].value) IN
                IF stored_value.expires_at = None
                THEN mongo[key][1].expiresAt = DNE
                ELSE mongo[key][1].expiresAt >= stored_value.expires_at[1]

(***************************************************************************)
(* C39: key isolation in FileStorage: for any two distinct keys K1 and K2, *)
(* set(K2, v) and delete(K2) leave what get(K1) returns unchanged, that    *)
(* is, distinct keys never map to the same file name.                      *)
(***************************************************************************)
\* what get(k) returns from the entries at time t
GetOf(entries, k, t) ==
    IF entries[k] = Absent \/ expired(entries[k][1], t) THEN None
    ELSE Some(entries[k][1].data)

C39_KeyIsolation ==
    [][(kind = "file" /\ res'.op \in {"set", "delete"}) =>
          \A K1 \in Keys \ {res'.key} :
              GetOf(FileEntries', K1, now') = GetOf(FileEntries, K1, now)]_vars

(***************************************************************************)
(* C34: FileStorage.delete_all succeeds in every reachable state, also     *)
(* before any set (the directory was never created) and twice in a row;    *)
(* afterwards get returns null for every key.                              *)
(***************************************************************************)
C34_DeleteAllAlwaysSucceeds ==
    (kind = "file" /\ res.op = "delete_all") =>
        /\ res.raised = ""
        /\ \A k \in Keys : GetOf(FileEntries, k, now) = None

\* delete_all on a directory that exists: no exception, nothing left
C34_DeleteAllOfExistingDirectory ==
    (kind = "file" /\ res.op = "delete_all" /\ dir_exists) =>
        /\ res.raised = ""
        /\ \A k \in Keys : GetOf(FileEntries, k, now) = None

(***************************************************************************)
(* FileStorage.set with the operating system failing one of the calls of   *)
(* _write (storage/file.py): tempfile.mkstemp, os.write or os.replace      *)
(* raises OSError.  One caller at a time.                                  *)
(***************************************************************************)
WriteFaults == {"none", "mkstemp", "write", "replace"}

\* a temp file that is never unlinked: it stays unless it was renamed
tmp_after_finally_without_unlink(renamed) == ~renamed

\* the outer finally of _write, "if not renamed: os.unlink(tmp_file_name)":
\* whether the temp file made by mkstemp is in the directory afterwards
tmp_after_finally(renamed) ==
    LET unlinked == ~renamed IN
    ~renamed /\ ~unlinked

\* "except OSError: pass" around the whole of _write
except_OSError(raised) == IF raised = "OSError" THEN "" ELSE raised

\* _FileCommon._write call by call: the exception that leaves it, the files
\* of the directory afterwards and whether a temp file is left among them
_write_calls(target_file, stored_value, fault) ==
    IF fault = "mkstemp"
    THEN [raised |-> except_OSError("OSError"), files |-> files, tmp_left |-> FALSE]
    ELSE LET renamed == fault \notin {"write", "replace"} IN
         [raised |-> except_OSError(IF renamed THEN "" ELSE "OSError"),
          files |-> IF renamed
                    THEN [files EXCEPT ![target_file] = Some(pickle_dumps(stored_value))]
                    ELSE files,
          tmp_left |-> tmp_after_finally(renamed)]

FaultOutcome(k, v, raised, fault, tmp_left) ==
    [op |-> "set", key |-> k, out |-> None, raised |-> raised, at |-> now,
     before |-> FileEntries, value |-> v, fault |-> fault, tmp_left |-> tmp_left]

\* FileStorage.set: mkdir, the envelope (ValueError for an invalid
\* expires_in, before anything is written), then _write
FileStorage_set_calls(k, v, t, fault) ==
    LET path == _path_from_key(k)
        stored_value == StoredObject_new(v, t, now) IN
    /\ kind = "file"
    /\ dir_exists' = TRUE
    /\ IF stored_value = None
       THEN /\ fault = "none"
            /\ res' = FaultOutcome(k, v, "ValueError", "none", FALSE)
            /\ UNCHANGED <<files, lastSet, deleted>>
       ELSE LET w == _write_calls(path, stored_value[1], fault) IN
            /\ files' = w.files
            /\ res' = FaultOutcome(k, v, w.raised, fault, w.tmp_left)
            /\ IF fault = "none"
               THEN /\ lastSet' = [lastSet EXCEPT ![k] = Some(SetRecord(v, t))]
                    /\ deleted' = deleted \ {k}
               ELSE UNCHANGED <<lastSet, deleted>>
    /\ UNCHANGED <<now, kind, _mem>>
    /\ UNCHANGED nonStorageVars

FaultInit == StorageInit /\ kind = "file"

\* the keys set and read here
FaultKeys == {<<"k">>, <<"-">>}

FaultNext ==
    \/ Tick
    \/ \E k \in FaultKeys, v \in Values, t \in ExpiresIn, fault \in WriteFaults :
          FileStorage_set_calls(k, v, t, fault)
    \/ \E k \in FaultKeys : FileStorage_get(k)

SpecFileFault == FaultInit /\ [][FaultNext]_vars

(***************************************************************************)
(* C33: a FileStorage.set(K, v2) whose temp-file write or rename fails     *)
(* with an OS error returns normally without raising, leaves the value     *)
(* previously stored under K readable by get(K), and leaves no temp file   *)
(* behind in the storage directory.                                        *)
(***************************************************************************)
C33_FailedSetKeepsOldValue ==
    (res.op = "set" /\ res.fault # "none") =>
        /\ res.raised = ""
        /\ ~res.tmp_left
        /\ \A k \in Keys : GetOf(FileEntries, k, now) = GetOf(res.before, k, now)

\* a rename fails while another value is stored under the key and live
C33_Witness ==
    /\ res.op = "set" /\ res.fault = "replace"
    /\ GetOf(res.before, res.key, now) # None
    /\ GetOf(FileEntries, res.key, now) # Some(res.value)

(***************************************************************************)
(* Calls that are made from inside a user function (ref.py sync_wrapper,   *)
(* value.py wrapper).  Every decorated function has the lock made when it  *)
(* was decorated: a threading.Lock for cache_reference and for cache_value *)
(* with allow_concurrent=False, a _NullLock otherwise.  The registry of    *)
(* cache_reference is read and written under the module's _lock.  A user   *)
(* function called with n > 0 may call a decorated function with n - 1     *)
(* before it returns or raises; it does not catch what that call raises.   *)
(* The storage of a cache_value decorator is taken as resolved, and its    *)
(* get and set as one step each.                                           *)
(***************************************************************************)
NNestThreads == 2
NFuncs == 2
MaxNestCalls == 2
MaxArg == 1

NestThreads == 1..NNestThreads
Funcs == 1..NFuncs
NestArgs == 0..MaxArg

NestDecorators == {"cache_reference", "cache_value", "cache_value_concurrent"}

\* what a user function may raise
UserErrors == {"ValueError", "KeyError"}

\* threading.Lock() or _NullLock() (value.py 150-153, ref.py 49-52)
serialized(f) == decorator[f] # "cache_value_concurrent"

\* the cache key of a call: function key and argument digest
NestKey(f, a) == <<f, a>>

Top(t) == frames[t][Len(frames[t])]

Frame(f, a) == [fn |-> f, arg |-> a, pc |-> "acquire", inv |-> 0, exc |-> ""]

NestInit ==
    /\ decorator \in [Funcs -> NestDecorators]
    /\ frames = [t \in NestThreads |-> <<>>]
    /\ lock = [f \in Funcs |-> 0]
    /\ ref_lock = 0
    /\ registry = <<>>
    /\ bodies = <<>>
    /\ nlog = <<>>
    /\ now = 0
    /\ res = NoOp
    /\ kind = "none"
    /\ StorageFresh
    /\ PrefixIdle
    /\ RefIdle
    /\ ValueIdle
    /\ KeyIdle
    /\ WriteIdle
    /\ RaceIdle
    /\ LazyIdle
    /\ HashIdle
    /\ DecoIdle

NestRest ==
    UNCHANGED <<now, res, storageVars, prefixVars, refVars, valueVars, keyVars, writeVars,
                raceVars, lazyVars, hashVars, decoVars, decorator>>

\* a with-block that keeps the lock when it is left by an exception
with_exit_on_return_only(t, exc) == IF exc = "" THEN 0 ELSE t

\* leaving "with lock:" by a return or by an exception: the lock is released
with_exit(t, exc) == 0

\* a lookup that leaves the registry mutex held for the invocation
_lock_after_lookup_held(t) == t

\* leaving "with _lock: ref = _ref_storage[key]": the mutex is released
_lock_after_lookup(t) == 0

\* the stack of a thread with its innermost call set to frame
SetTop(t, frame) == [frames[t] EXCEPT ![Len(frames[t])] = frame]

\* the innermost call of thread t leaves its wrapper, by a return (exc = "")
\* or by the exception exc: the caller goes on, or the exception goes on
\* through the caller's body
Leaves(t, exc) ==
    LET top == Top(t)
        rest == SubSeq(frames[t], 1, Len(frames[t]) - 1) IN
    /\ lock' = IF serialized(top.fn) THEN [lock EXCEPT ![top.fn] = with_exit(t, exc)] ELSE lock
    /\ IF rest = <<>>
       THEN /\ frames' = [frames EXCEPT ![t] = <<>>]
            /\ nlog' = Append(nlog, [fn |-> top.fn, arg |-> top.arg, raised |-> exc])
            /\ bodies' = bodies
       ELSE LET caller == rest[Len(rest)] IN
            /\ frames' = [frames EXCEPT ![t] =
                  [rest EXCEPT ![Len(rest)] =
                      IF exc = "" THEN [caller EXCEPT !.pc = "after"]
                      ELSE [caller EXCEPT !.pc = "raise", !.exc = exc]]]
            /\ bodies' = IF exc = "" THEN bodies
                         ELSE [bodies EXCEPT ![caller.inv].outcome = "raised"]
            /\ nlog' = nlog

InCall == {t \in NestThreads : frames[t] # <<>>}

\* a thread calls the decorated function f with argument a
Nest_call(t, f, a) ==
    /\ frames[t] = <<>>
    /\ Len(nlog) + Cardinality(InCall) < MaxNestCalls
    /\ frames' = [frames EXCEPT ![t] = <<Frame(f, a)>>]
    /\ UNCHANGED <<lock, ref_lock, registry, bodies, nlog>>
    /\ NestRest

\* with lock:
Nest_acquire(t) ==
    /\ frames[t] # <<>> /\ Top(t).pc = "acquire"
    /\ serialized(Top(t).fn) => lock[Top(t).fn] = 0
    /\ lock' = IF serialized(Top(t).fn) THEN [lock EXCEPT ![Top(t).fn] = t] ELSE lock
    /\ frames' = [frames EXCEPT ![t] = SetTop(t, [Top(t) EXCEPT !.pc =
                     IF decorator[Top(t).fn] = "cache_reference" THEN "key_lock" ELSE "get"])]
    /\ UNCHANGED <<ref_lock, registry, bodies, nlog>>
    /\ NestRest

\* with _lock: entering, before the lookup and before the store
Nest_take_lock(t) ==
    /\ frames[t] # <<>> /\ Top(t).pc \in {"key_lock", "store_lock"}
    /\ ref_lock = 0
    /\ ref_lock' = t
    /\ frames' = [frames EXCEPT ![t] = SetTop(t, [Top(t) EXCEPT !.pc =
                     IF Top(t).pc = "key_lock" THEN "lookup" ELSE "store"])]
    /\ UNCHANGED <<lock, registry, bodies, nlog>>
    /\ NestRest

\* the user function is entered: func(*args, **kwargs)
Enter(t) ==
    /\ bodies' = Append(bodies, [fn |-> Top(t).fn, arg |-> Top(t).arg, outcome |-> "running"])
    /\ frames' = [frames EXCEPT ![t] =
                     SetTop(t, [Top(t) EXCEPT !.pc = "body", !.inv = Len(bodies) + 1])]
    /\ UNCHANGED <<lock, nlog>>

\* ref = _ref_storage[key] under _lock: a hit returns, a miss (KeyError)
\* goes on to the user function
Nest_lookup(t) ==
    LET key == NestKey(Top(t).fn, Top(t).arg) IN
    /\ frames[t] # <<>> /\ Top(t).pc = "lookup"
    /\ ref_lock' = _lock_after_lookup(t)
    /\ IF key \in DOMAIN registry
       THEN Leaves(t, "")
       ELSE Enter(t)
    /\ UNCHANGED registry
    /\ NestRest

\* data = storage.get(key) of cache_value
Nest_get(t) ==
    LET key == NestKey(Top(t).fn, Top(t).arg) IN
    /\ frames[t] # <<>> /\ Top(t).pc = "get"
    /\ IF key \in DOMAIN registry
       THEN Leaves(t, "")
       ELSE Enter(t)
    /\ UNCHANGED <<ref_lock, registry>>
    /\ NestRest

\* the user function calls the decorated function g with its argument less one
Nest_body_call(t, g) ==
    /\ frames[t] # <<>> /\ Top(t).pc = "body" /\ Top(t).arg > 0
    /\ frames' = [frames EXCEPT ![t] =
                     Append(SetTop(t, [Top(t) EXCEPT !.pc = "call"]), Frame(g, Top(t).arg - 1))]
    /\ UNCHANGED <<lock, ref_lock, registry, bodies, nlog>>
    /\ NestRest

\* the user function returns
Nest_body_return(t) ==
    /\ frames[t] # <<>> /\ Top(t).pc \in {"body", "after"}
    /\ bodies' = [bodies EXCEPT ![Top(t).inv].outcome = "returned"]
    /\ frames' = [frames EXCEPT ![t] = SetTop(t, [Top(t) EXCEPT !.pc =
                     IF decorator[Top(t).fn] = "cache_reference" THEN "store_lock" ELSE "set"])]
    /\ UNCHANGED <<lock, ref_lock, registry, nlog>>
    /\ NestRest

\* the user function raises
Nest_body_raise(t, exc) ==
    /\ frames[t] # <<>> /\ Top(t).pc \in {"body", "after"}
    /\ bodies' = [bodies EXCEPT ![Top(t).inv].outcome = "raised"]
    /\ frames' = [frames EXCEPT ![t] = SetTop(t, [Top(t) EXCEPT !.pc = "raise", !.exc = exc])]
    /\ UNCHANGED <<lock, ref_lock, registry, nlog>>
    /\ NestRest

\* _ref_storage[key] = ref under _lock, then return ref
Nest_store(t) ==
    /\ frames[t] # <<>> /\ Top(t).pc = "store"
    /\ registry' = Put(registry, NestKey(Top(t).fn, Top(t).arg), Top(t).inv)
    /\ ref_lock' = 0
    /\ Leaves(t, "")
    /\ NestRest

\* pickle.dumps(value), storage.set(key, data), then return value
Nest_set(t) ==
    /\ frames[t] # <<>> /\ Top(t).pc = "set"
    /\ registry' = Put(registry, NestKey(Top(t).fn, Top(t).arg), Top(t).inv)
    /\ Leaves(t, "")
    /\ UNCHANGED ref_lock
    /\ NestRest

\* what func raised leaves the wrapper: no except clause is around the call
Nest_unwind(t) ==
    /\ frames[t] # <<>> /\ Top(t).pc = "raise"
    /\ Leaves(t, Top(t).exc)
    /\ UNCHANGED <<ref_lock, registry>>
    /\ NestRest

NestNext ==
    \/ \E t \in NestThreads, f \in Funcs, a \in NestArgs : Nest_call(t, f, a)
    \/ \E t \in NestThreads : Nest_acquire(t)
    \/ \E t \in NestThreads : Nest_take_lock(t)
    \/ \E t \in NestThreads : Nest_lookup(t)
    \/ \E t \in NestThreads : Nest_get(t)
    \/ \E t \in NestThreads, g \in Funcs : Nest_body_call(t, g)
    \/ \E t \in NestThreads : Nest_body_return(t)
    \/ \E t \in NestThreads, exc \in UserErrors : Nest_body_raise(t, exc)
    \/ \E t \in NestThreads : Nest_store(t)
    \/ \E t \in NestThreads : Nest_set(t)
    \/ \E t \in NestThreads : Nest_unwind(t)

SpecNested == NestInit /\ [][NestNext]_vars

(***************************************************************************)
(* C32: the mutex of the reference registry is never held while a user     *)
(* function or storage factory is executing: it is held only for the       *)
(* lookup and for the store, and released before the wrapped callable is   *)
(* invoked, so a call made from inside a wrapped callable never waits for  *)
(* the mutex while its own caller holds it.                                *)
(***************************************************************************)
InUserCode(pc) == pc \in {"body", "call", "after", "raise"}

C32_RegistryMutexNotHeldInUserCode ==
    \A t \in NestThreads :
        /\ ref_lock = t =>
              /\ frames[t] # <<>>
              /\ Top(t).pc \in {"lookup", "store"}
              /\ \A i \in 1..(Len(frames[t]) - 1) : InUserCode(frames[t][i].pc)
        /\ (frames[t] # <<>> /\ Top(t).pc \in {"key_lock", "store_lock"}) => ref_lock # t

\* a cache_reference function called from inside the body of another holds
\* the mutex for its lookup
C32_Witness ==
    \E t \in NestThreads :
        /\ Len(frames[t]) = 2
        /\ decorator[frames[t][1].fn] = "cache_reference"
        /\ decorator[frames[t][2].fn] = "cache_reference"
        /\ frames[t][1].pc = "call"
        /\ frames[t][2].pc = "lookup"
        /\ ref_lock = t

(***************************************************************************)
(* C35: a call to a cache_reference function, or to a cache_value function *)
(* with allow_concurrent=False, completes when the body completes, also    *)
(* when the body calls the same decorated function with other arguments:   *)
(* no call waits for ever for the decorator's own lock.                    *)
(***************************************************************************)
\* a call that waits for a lock which the waiting thread itself holds
WaitsForItself(t) ==
    /\ frames[t] # <<>>
    /\ Top(t).pc = "acquire"
    /\ serialized(Top(t).fn)
    /\ lock[Top(t).fn] = t

C35_NoCallWaitsForItself == \A t \in NestThreads : ~WaitsForItself(t)

\* without a call of a serialized function from inside itself, every lock
\* that is waited for is held by a thread that can go on
C35_OnlyRecursionWaitsForItself ==
    \A t \in NestThreads :
        WaitsForItself(t) =>
            \E i \in 1..(Len(frames[t]) - 1) : frames[t][i].fn = Top(t).fn

(***************************************************************************)
(* C36: if the user function raises during a cache miss, the exception     *)
(* propagates unchanged, nothing is written to the storage or the          *)
(* registry, every lock taken by the call is released, and the next call   *)
(* with the same arguments invokes the function again.                     *)
(***************************************************************************)
Returned(f, a) ==
    \E i \in 1..Len(bodies) :
        bodies[i].fn = f /\ bodies[i].arg = a /\ bodies[i].outcome = "returned"

\* what is cached was returned by an invocation for that key
C36_CachedWasReturned ==
    \A key \in DOMAIN registry :
        /\ bodies[registry[key]].outcome = "returned"
        /\ key = NestKey(bodies[registry[key]].fn, bodies[registry[key]].arg)

\* the step in which an exception raised in the body leaves the wrapper
C36_Unwinding(t) ==
    (frames[t] # <<>> /\ Top(t).pc = "raise" /\ frames'[t] # frames[t]) =>
        /\ registry' = registry
        /\ ref_lock' # t
        /\ serialized(Top(t).fn) => lock'[Top(t).fn] = 0
        /\ IF Len(frames[t]) = 1
           THEN nlog' = Append(nlog, [fn |-> Top(t).fn, arg |-> Top(t).arg,
                                      raised |-> Top(t).exc])
           ELSE /\ Len(frames'[t]) = Len(frames[t]) - 1
                /\ frames'[t][Len(frames'[t])].pc = "raise"
                /\ frames'[t][Len(frames'[t])].exc = Top(t).exc

\* a call for which no invocation has returned yet invokes the function
C36_InvokesAgain(t) ==
    (/\ frames[t] # <<>>
     /\ Top(t).pc \in {"lookup", "get"}
     /\ frames'[t] # frames[t]
     /\ ~Returned(Top(t).fn, Top(t).arg)) =>
        /\ Len(frames'[t]) = Len(frames[t])
        /\ frames'[t][Len(frames'[t])].pc = "body"
        /\ Len(bodies') = Len(bodies) + 1

FactoriesInvoked(factory_key) ==
    {i.w : i \in {j \in invs : j.key \in {FactoryCallKey(d) : d \in
                     {e \in Decorators : conf.factory_key[e] = factory_key}}}}

C37_StorageByFactoryKeyOnly ==
    /\ \A d1 \in Decorators, d2 \in Decorators :
          (HasStorage(d1) /\ HasStorage(d2) /\ conf.factory_key[d1] = conf.factory_key[d2])
              => dec[d1]._storage = dec[d2]._storage
    /\ \A factory_key \in FactoryKeys : Cardinality(FactoriesInvoked(factory_key)) <= 1

\* the same when the calls happen one after another
C37_StorageByFactoryKeyOnlySequential == ~overlapped => C37_StorageByFactoryKeyOnly

\* two decorators with equal factory_key, called one after another, have
\* one storage, made by the factory of one of them
C37_SequentialCase ==
    /\ ~overlapped
    /\ \E d1 \in Decorators, d2 \in Decorators :
          /\ d1 # d2
          /\ conf.factory_key[d1] = conf.factory_key[d2]
          /\ HasStorage(d1) /\ HasStorage(d2)
          /\ FactoriesInvoked(conf.factory_key[d1]) = {d1}

(***************************************************************************)
(* CacheFuncHasher.to_bytes with its memo table and the thread's hash      *)
(* stack (_hashing.py).  update_hash makes a new CacheFuncHasher, so the   *)
(* memo table is empty at the start of every top-level call, while the     *)
(* hash stack belongs to the thread and is carried from one call to the    *)
(* next.  The items of a container are hashed one after the other.         *)
(* Object n is at address n; the values 1, True and the connection object  *)
(* have addresses of their own.                                            *)
(***************************************************************************)
MaxHashNodes == 3
MaxHashRuns == 2

HashNodes == 1..MaxHashNodes

PyBool(s) == [type |-> "bool", val |-> s]

HashLeaves == {PyInt(<<"1">>), PyBool(<<"1">>), Conn(<<"c">>)}

HashNodeOf(item) == CHOOSE n \in HashNodes : str(n) = item.val

Range(s) == {s[i] : i \in 1..Len(s)}

\* the containers hashed: object 1 holds up to two of the other objects and
\* the connection, the others hold at most one value or object 1
OuterItems == {Object(n) : n \in HashNodes \ {1}} \cup {Conn(<<"c">>)}
InnerItems == HashLeaves \cup {Object(1)}
OuterSeqs == {<<>>} \cup {<<x>> : x \in OuterItems} \cup {<<x, y>> : x \in OuterItems, y \in OuterItems}
InnerSeqs == {<<>>} \cup {<<x>> : x \in InnerItems}

HashObjects ==
    {objects \in [HashNodes -> [type : {"list", "tuple"}, items : OuterSeqs \cup InnerSeqs]] :
        /\ objects[1].items \in OuterSeqs
        /\ \A n \in HashNodes \ {1} : objects[n].items \in InnerSeqs
        /\ \A n \in HashNodes \ {1} :
              ~(objects[1].type = "tuple" /\ objects[n].type = "tuple"
                /\ Object(n) \in Range(objects[1].items)
                /\ Object(1) \in Range(objects[n].items))}

\* id(obj)
id(item) ==
    IF item.type = "object" THEN HashNodeOf(item)
    ELSE IF item.type = "int" THEN MaxHashNodes + 1
    ELSE IF item.type = "bool" THEN MaxHashNodes + 2
    ELSE MaxHashNodes + 3

\* type(obj).__qualname__
tname(objects, item) ==
    IF item.type = "object" THEN objects[HashNodeOf(item)].type ELSE item.type

\* is_simple of key_
is_simple(item) == item.type \in {"int", "bool", "str", "NoneType"}

\* a simple value as == and hash() see it inside a tuple: True and 1 are
\* equal and have equal hashes, a str is equal to no number
simple_key(item) ==
    IF item.type \in {"int", "bool"} THEN <<"number">> \o item.val
    ELSE <<item.type>> \o item.val

\* key_(obj): the key for memoization, None standing for NoResult
key_(objects, item) ==
    IF item.type # "object"
    THEN IF is_simple(item) THEN Some(<<simple_key(item)>>) ELSE None
    ELSE LET o == objects[HashNodeOf(item)] IN
         IF \E i \in 1..Len(o.items) : ~is_simple(o.items[i]) THEN None
         ELSE IF o.type = "tuple" THEN Some([i \in 1..Len(o.items) |-> simple_key(o.items[i])])
         ELSE Some(<<<<"__l">>>> \o [i \in 1..Len(o.items) |-> simple_key(o.items[i])])

\* HashStack.push and HashStack.pop: an OrderedDict keyed by id, popitem()
push(stack, item) == Append(stack, id(item))
pop(stack) == SubSeq(stack, 1, Len(stack) - 1)

\* a stack that is cleaned up only when the hashing returned
pop_unless_raised(stack, raised) == IF raised = "" THEN pop(stack) ELSE stack

\* the finally clause of to_bytes: hash_stacks.current.pop()
finally_pop(stack, raised) == pop(stack)

\* CacheFuncHasher.to_bytes and _to_bytes of an item: the exception raised,
\* the bytes, and the hash stack and self._hashes afterwards.  With memoize
\* FALSE self._hashes is neither read nor written.
RECURSIVE CacheFuncHasher_to_bytes(_, _, _, _, _)
RECURSIVE _to_bytes_items(_, _, _, _, _)
_to_bytes_items(objects, memoize, items, i, acc) ==
    IF i > Len(items) \/ acc.raised # "" THEN acc
    ELSE LET r == CacheFuncHasher_to_bytes(objects, memoize, items[i], acc.stack, acc.memo) IN
         _to_bytes_items(objects, memoize, items, i + 1,
                         [raised |-> r.raised,
                          b |-> IF r.raised = "" THEN Append(acc.b, r.b) ELSE <<>>,
                          stack |-> r.stack, memo |-> r.memo])

_to_bytes(objects, memoize, item, stack, memo) ==
    IF item.type \in {"int", "bool"}
    THEN [raised |-> "", b |-> <<item.val>>, stack |-> stack, memo |-> memo]
    ELSE IF item.type = "object"
    THEN _to_bytes_items(objects, memoize, objects[HashNodeOf(item)].items, 1,
                         [raised |-> "", b |-> <<>>, stack |-> stack, memo |-> memo])
    ELSE [raised |-> reduce_to_bytes(item).raised, b |-> <<>>, stack |-> stack, memo |-> memo]

CacheFuncHasher_to_bytes(objects, memoize, item, stack, memo) ==
    LET key == <<tname(objects, item), key_(objects, item)>> IN
    IF memoize /\ key[2] # None /\ key \in DOMAIN memo
    THEN [raised |-> "", b |-> memo[key], stack |-> stack, memo |-> memo]
    ELSE IF in_stack(id(item), Range(stack))
    THEN [raised |-> "", b |-> _CYCLE_PLACEHOLDER, stack |-> stack, memo |-> memo]
    ELSE LET r == _to_bytes(objects, memoize, item, push(stack, item), memo)
             b == <<tname(objects, item), r.b>> IN
         [raised |-> r.raised,
          b |-> IF r.raised = "" THEN b ELSE <<>>,
          stack |-> finally_pop(r.stack, r.raised),
          memo |-> IF memoize /\ r.raised = "" /\ key[2] # None
                   THEN Put(r.memo, key, b) ELSE r.memo]

\* the hash stack of the thread now: what the last call left
hash_stack == IF hruns = <<>> THEN <<>> ELSE hruns[Len(hruns)].after

HasherInit ==
    /\ hobj \in [objects : HashObjects]
    /\ hruns = <<>>
    /\ now = 0
    /\ res = NoOp
    /\ kind = "none"
    /\ StorageFresh
    /\ PrefixIdle
    /\ RefIdle
    /\ ValueIdle
    /\ KeyIdle
    /\ WriteIdle
    /\ RaceIdle
    /\ LazyIdle
    /\ DecoIdle
    /\ NestIdle

\* update_hash(obj, hasher) of object n by the thread
Hash(n) ==
    LET r == CacheFuncHasher_to_bytes(hobj.objects, TRUE, Object(n), hash_stack, <<>>) IN
    /\ Len(hruns) < MaxHashRuns
    /\ hruns' = Append(hruns, [root |-> n, raised |-> r.raised, b |-> r.b,
                               before |-> hash_stack, after |-> r.stack])
    /\ UNCHANGED <<now, res, storageVars, prefixVars, refVars, valueVars, keyVars, writeVars,
                   raceVars, nestVars, lazyVars, decoVars, hobj>>

HasherNext == \E n \in HashNodes : Hash(n)

SpecHasher == HasherInit /\ [][HasherNext]_vars

(***************************************************************************)
(* C31: after every CacheFuncHasher.to_bytes call, whether it returns or   *)
(* raises, the calling thread's hash stack has the contents it had before  *)
(* the call; so it is empty between top-level calls, and a failed hashing  *)
(* never makes a later value be taken for a cycle.                         *)
(***************************************************************************)
\* the call from an empty hash stack
FromEmptyStack(n) == CacheFuncHasher_to_bytes(hobj.objects, TRUE, Object(n), <<>>, <<>>)

C31_HashStackBalanced ==
    \A i \in 1..Len(hruns) :
        /\ hruns[i].after = hruns[i].before
        /\ hruns[i].before = <<>>
        /\ hruns[i].raised = FromEmptyStack(hruns[i].root).raised
        /\ hruns[i].raised = "" => hruns[i].b = FromEmptyStack(hruns[i].root).b

\* a hashing failed inside a nested container, and an object that was on
\* the stack at the time was hashed afterwards
C31_Witness ==
    /\ Len(hruns) = 2
    /\ hruns[1].root = 1
    /\ hruns[1].raised = "UnhashableTypeError"
    /\ \E n \in HashNodes \ {1} :
          /\ hobj.objects[1].items = <<Object(n)>>
          /\ hobj.objects[n].items = <<Conn(<<"c">>)>>
          /\ hruns[2].root = n

(***************************************************************************)
(* C40: memoization is transparent: to_bytes with the session memo table   *)
(* returns the bytes it would return with an empty memo table, so a        *)
(* container holding two tuples (or lists) that compare equal but differ   *)
(* in element type, such as (1,) and (True,), never gets the digest of a   *)
(* container holding the same tuple twice.                                 *)
(***************************************************************************)
WithoutMemo(n) == CacheFuncHasher_to_bytes(hobj.objects, FALSE, Object(n), <<>>, <<>>)

C40_MemoTransparent ==
    \A i \in 1..Len(hruns) :
        hruns[i].raised = "" => hruns[i].b = WithoutMemo(hruns[i].root).b

\* containers whose items are of pairwise different memo keys do get the
\* bytes computed without the memo table
DistinctKeys(n) ==
    \A a \in HashNodes, b \in HashNodes :
        (Object(a) \in Range(hobj.objects[n].items)
         /\ Object(b) \in Range(hobj.objects[n].items)
         /\ <<tname(hobj.objects, Object(a)), key_(hobj.objects, Object(a))>>
              = <<tname(hobj.objects, Object(b)), key_(hobj.objects, Object(b))>>)
            => hobj.objects[a] = hobj.objects[b]

C40_MemoTransparentForDistinctKeys ==
    \A i \in 1..Len(hruns) :
        (hruns[i].raised = "" /\ \A n \in HashNodes : DistinctKeys(n))
            => hruns[i].b = WithoutMemo(hruns[i].root).b

====
